---- MODULE Spec2Model ----
(***************************************************************************)
(* A model of the asynchronous DNS resolver: DNSResolver (orchestrator),   *)
(* CaresQueryStrategy (query strategy over the c-ares channel), LRUCache,  *)
(* BasicMetrics counters and the EventPublisher.                           *)
(*                                                                         *)
(* Threads: resolve() and shutdown() run on caller threads, completions    *)
(* are delivered by the thread that calls processEvents() (the pump).      *)
(* std::this_thread::sleep_for inside handleQueryResult is the one place   *)
(* where a handler is split in two steps (HandleCompletion / RetryWake),   *)
(* because other threads run while the pump thread sleeps.  Sleeps on the  *)
(* retry chain that runs against a strategy that is no longer initialised  *)
(* are elided: that chain is synchronous on one thread.                    *)
(*                                                                         *)
(* BasicMetrics::recordQuery calls cleanupOldStats() while it holds mutex_; *)
(* once CLEANUP_INTERVAL has elapsed since the last cleanup, cleanupOldStats *)
(* locks mutex_ again on the same thread.  Locking a std::mutex its owner    *)
(* holds is undefined: the outcomes modelled are RelockOutcomes.             *)
(*                                                                         *)
(* Besides the resolver (Spec) and the hostname validation (SpecHostname),   *)
(* the module drives two components on their own: one LRUCache through its *)
(* public interface (SpecCache), and the strategy's server selection and   *)
(* health bookkeeping (SpecSelect).                                        *)
(*                                                                         *)
(* Further specifications: the resolver's life cycle with re-initialise,  *)
(* repeated shutdown and updateConfig (SpecLifecycle); ConfigManager      *)
(* (SpecConfigManager); EventPublisher with subscribers that return or    *)
(* throw (SpecPublisher); RunningStats in IEEE-754 binary64 arithmetic    *)
(* (SpecStats); BasicMetrics called by several threads (SpecMetrics);     *)
(* CaresQueryStrategy's initialize / query / shutdown / processEvents     *)
(* (SpecStrategy, and SpecStrategyPumped where processEvents keeps being  *)
(* called); the contexts mutexes around calls out of a component          *)
(* (SpecLocks); the query durations and their percentile export           *)
(* (SpecDurations); initialize() and resolve() of one DNSResolver on two  *)
(* threads (SpecStartup).                                                 *)
(*                                                                         *)
(* Text is modelled as a tuple of one-character strings.  uint32_t values  *)
(* of RetryConfig are modelled as <<hi, lo>> pairs of 16-bit limbs         *)
(* (value = hi * 65536 + lo), so that 32-bit wrap-around is computed.      *)
(***************************************************************************)
EXTENDS Integers, Sequences, FiniteSets, TLC

\* ---------------------------------------------------------------- bounds
MaxResolves == 2
MaxTime == 1
MaxSize == 2        \* LRUCache under test: max_size in 0..MaxSize
MaxTtl == 2         \* LRUCache under test: ttl in 1..MaxTtl
MaxCacheTime == 1   \* LRUCache under test: the clock runs from 0 to MaxCacheTime
MaxGets == 2        \* LRUCache under test: number of get calls
MaxErrors == 2      \* server selection: error_count stays within 0..MaxErrors
MaxSamples == 1     \* server selection: latency samples recorded per server
MaxPending == 2     \* server selection: attempts dispatched and not completed
MaxShutdowns == 2   \* life cycle: number of DNSResolver::shutdown() calls
MaxUpdates == 1     \* life cycle: number of ConfigManager::updateConfig calls
MaxLifecycleResolves == 1   \* life cycle: number of resolve() calls
MaxSubscribers == 2 \* EventPublisher: subscribers per event
MaxStatsLen == 3    \* RunningStats: number of update() calls since the last reset()
MaxMetricsCalls == 3   \* BasicMetrics under threads: number of record* calls
MaxStrategyQueries == 2   \* CaresQueryStrategy on its own: contexts in flight
MaxLockContexts == 2   \* contexts mutexes: contexts pending in the strategy
MaxDurations == 4   \* percentile export: number of durations recorded
MaxInitializeCalls == 2   \* resolver start-up: initialize() calls that win the compare_exchange
MaxStartupResolves == 2   \* resolver start-up: number of resolve() calls

\* ------------------------------------------------------ program constants
MAX_HOSTNAME_LENGTH == 253
MAX_LABEL_LENGTH == 63
MAX_LATENCY_SAMPLES == 100
MAX_SAMPLES == 1000

DBL_MANT_DIG == 53
Limb == 65536

\* ---------------------------------------------------------- status codes
Statuses ==
  {"SUCCESS", "ENODATA", "ENOTFOUND", "ESERVFAIL", "ECANCELLED",
   "ENOTINITIALIZED", "EBADNAME", "EOF"}

EmptyName == <<>>

\* ResolveResult (Common.h): the fields the resolver reads or forwards.
Result(status, hostname, ips, from_cache) ==
  [status |-> status, hostname |-> hostname, ip_addresses |-> ips,
   from_cache |-> from_cache]

\* ------------------------------------------------------------ text helpers
Letters == {"a", "b"}
Digits == {"0"}

isalnum(c) == c \in Letters \cup Digits

Rep(c, n) == [i \in 1..n |-> c]

FirstDot(s) ==
  IF \E i \in DOMAIN s : s[i] = "."
  THEN CHOOSE i \in DOMAIN s : s[i] = "." /\ \A j \in 1..(i - 1) : s[j] # "."
  ELSE 0

\* The labels std::getline(stream, label, '.') yields until it fails: a
\* delimiter ends a (possibly empty) label; at end of input an empty rest
\* yields no label.
RECURSIVE GetLines(_)
GetLines(s) ==
  IF s = <<>> THEN <<>>
  ELSE IF FirstDot(s) = 0 THEN <<s>>
  ELSE <<SubSeq(s, 1, FirstDot(s) - 1)>> \o GetLines(SubSeq(s, FirstDot(s) + 1, Len(s)))

isValidHostnameLabel(label) ==
  IF label = <<>> \/ Len(label) > MAX_LABEL_LENGTH THEN FALSE
  ELSE IF ~isalnum(label[1]) \/ ~isalnum(label[Len(label)]) THEN FALSE
  ELSE \A i \in DOMAIN label : isalnum(label[i]) \/ label[i] = "-"

isValidHostname(hostname) ==
  IF hostname = <<>> \/ Len(hostname) > MAX_HOSTNAME_LENGTH THEN FALSE
  ELSE \A i \in DOMAIN GetLines(hostname) : isValidHostnameLabel(GetLines(hostname)[i])

\* ------------------------------------------------------ uint32_t arithmetic
U32(hi, lo) == <<hi, lo>>

U32Less(a, b) == a[1] < b[1] \/ (a[1] = b[1] /\ a[2] < b[2])

U32Min(a, b) == IF U32Less(b, a) THEN b ELSE a

Pow2(n) == IF n <= 0 THEN 1 ELSE LET p[i \in 0..n] == IF i = 0 THEN 1 ELSE 2 * p[i - 1] IN p[n]

\* a * m as unsigned 32-bit multiplication (m < 2^15): the product modulo 2^32.
U32Mul(a, m) ==
  LET lo == a[2] * m
      hi == a[1] * m + (lo \div Limb)
  IN  U32(hi % Limb, lo % Limb)

\* validateConfig: servers, timeout and retry ranges.
validateConfig(cfg) ==
  IF cfg.servers = 0 THEN FALSE
  ELSE IF cfg.query_timeout_ms < 100 \/ cfg.query_timeout_ms > 30000 THEN FALSE
  ELSE IF \/ cfg.retry.max_attempts < 1
          \/ cfg.retry.max_attempts > 10
          \/ U32Less(cfg.retry.base_delay_ms, U32(0, 10))
          \/ U32Less(cfg.retry.max_delay_ms, cfg.retry.base_delay_ms)
       THEN FALSE
  ELSE TRUE

\* handleQueryResult's delay, retry_count already incremented:
\*   auto delay = base_delay_ms * (1 << (retry_count - 1));
\*   delay = std::min(delay, max_delay_ms);
BackoffDelay(retry, retry_count) ==
  U32Min(U32Mul(retry.base_delay_ms, Pow2(retry_count - 1)), retry.max_delay_ms)

\* ------------------------------------------------------------------ LRUCache
NewLRUCache(max_size, ttl) ==
  [cache_ |-> <<>>, lru_list_ |-> <<>>, hits_ |-> 0, misses_ |-> 0,
   max_size_ |-> max_size, ttl_ |-> ttl]

MapErase(f, keys) == [k \in DOMAIN f \ keys |-> f[k]]

MapPut(f, k, v) == [x \in DOMAIN f \cup {k} |-> IF x = k THEN v ELSE f[x]]

ListErase(l, keys) == SelectSeq(l, LAMBDA e : e \notin keys)

\* The addresses cache_ stores under hostname, expired or not; <<>> if none.
Stored(c, hostname) ==
  IF hostname \in DOMAIN c.cache_ THEN c.cache_[hostname].ips ELSE <<>>

\* LRUCache::cleanup: drop every entry with now >= expire_time.
LRUCleanup(c, t) ==
  LET expired == {k \in DOMAIN c.cache_ : t >= c.cache_[k].expire_time}
  IN  [c EXCEPT !.cache_ = MapErase(@, expired), !.lru_list_ = ListErase(@, expired)]

\* LRUCache::get reads the clock twice: t in cleanup(), t2 at line 15.  When
\* the entry expires between the two reads, get erases the map node and then
\* reads entry.lru_iterator out of the erased node.  What that read does:
\* "stale": the freed bytes still hold the iterator and the list entry is
\* erased; "fault": the process is terminated inside get.
UseAfterEraseOutcomes == {"stale", "fault"}

\* A get whose hit leaves the LRU sequence as it is.
LRUGetAt_NoPromote(c, hostname, t, t2, ub) ==
  LET c1 == LRUCleanup(c, t)
  IN  IF hostname \notin DOMAIN c1.cache_ \/ t2 >= c1.cache_[hostname].expire_time
      THEN [cache |-> [c1 EXCEPT !.cache_ = MapErase(@, {hostname}),
                                 !.lru_list_ = ListErase(@, {hostname}),
                                 !.misses_ = @ + 1],
            hit |-> FALSE, ips |-> <<>>, fault |-> FALSE]
      ELSE [cache |-> [c1 EXCEPT !.hits_ = @ + 1],
            hit |-> TRUE, ips |-> c1.cache_[hostname].ips, fault |-> FALSE]

\* LRUCache::get: [cache, hit, ips, fault]; ips is the caller's (empty)
\* vector on a miss.
LRUGetAt(c, hostname, t, t2, ub) ==
  LET c1 == LRUCleanup(c, t)
  IN  IF hostname \notin DOMAIN c1.cache_
      THEN [cache |-> [c1 EXCEPT !.misses_ = @ + 1], hit |-> FALSE, ips |-> <<>>,
            fault |-> FALSE]
      ELSE IF t2 >= c1.cache_[hostname].expire_time
      THEN IF ub = "fault"
           THEN [cache |-> [c1 EXCEPT !.cache_ = MapErase(@, {hostname})],
                 hit |-> FALSE, ips |-> <<>>, fault |-> TRUE]
           ELSE [cache |-> [c1 EXCEPT !.cache_ = MapErase(@, {hostname}),
                                      !.lru_list_ = ListErase(@, {hostname}),
                                      !.misses_ = @ + 1],
                 hit |-> FALSE, ips |-> <<>>, fault |-> FALSE]
      ELSE [cache |-> [c1 EXCEPT !.lru_list_ = <<hostname>> \o ListErase(@, {hostname}),
                                 !.hits_ = @ + 1],
            hit |-> TRUE, ips |-> c1.cache_[hostname].ips, fault |-> FALSE]

\* LRUCache::get as the resolver calls it: both clock reads fall in one tick
\* of the resolver's clock.
LRUGet(c, hostname, t) == LRUGetAt(c, hostname, t, t, "stale")

\* An evict that pops the LRU list and leaves the map entry in place.
LRUEvict_KeepsEntry(c) ==
  IF c.lru_list_ = <<>> THEN c
  ELSE [c EXCEPT !.lru_list_ = SubSeq(@, 1, Len(@) - 1)]

\* LRUCache::evict: drop the key at the back of the LRU list.
LRUEvict(c) ==
  IF c.lru_list_ = <<>> THEN c
  ELSE [c EXCEPT !.cache_ = MapErase(@, {c.lru_list_[Len(c.lru_list_)]}),
                 !.lru_list_ = SubSeq(@, 1, Len(@) - 1)]

\* An update that leaves the addresses of a key already present as they are.
LRUUpdate_KeepsIps(c, hostname, ips, t) ==
  IF hostname \in DOMAIN c.cache_
  THEN [c EXCEPT !.lru_list_ = <<hostname>> \o ListErase(@, {hostname}),
                 !.cache_[hostname].expire_time = t + c.ttl_]
  ELSE LET c1 == IF Cardinality(DOMAIN c.cache_) >= c.max_size_ THEN LRUEvict(c) ELSE c
       IN  [c1 EXCEPT !.lru_list_ = <<hostname>> \o @,
                      !.cache_ = MapPut(@, hostname, [ips |-> ips, expire_time |-> t + c.ttl_])]

\* LRUCache::update.
LRUUpdate(c, hostname, ips, t) ==
  IF hostname \in DOMAIN c.cache_
  THEN [c EXCEPT !.lru_list_ = <<hostname>> \o ListErase(@, {hostname}),
                 !.cache_ = MapPut(@, hostname, [ips |-> ips, expire_time |-> t + c.ttl_])]
  ELSE LET c1 == IF Cardinality(DOMAIN c.cache_) >= c.max_size_ THEN LRUEvict(c) ELSE c
       IN  [c1 EXCEPT !.lru_list_ = <<hostname>> \o @,
                      !.cache_ = MapPut(@, hostname, [ips |-> ips, expire_time |-> t + c.ttl_])]

\* LRUCache::remove.
LRURemove(c, hostname) ==
  IF hostname \in DOMAIN c.cache_
  THEN [c EXCEPT !.lru_list_ = ListErase(@, {hostname}), !.cache_ = MapErase(@, {hostname})]
  ELSE c

\* LRUCache::clear.
LRUClear(c) == [c EXCEPT !.cache_ = <<>>, !.lru_list_ = <<>>, !.hits_ = 0, !.misses_ = 0]

\* LRUCache::size.
LRUSize(c) == Cardinality(DOMAIN c.cache_)

\* LRUCache::hit_rate: the quotient as [num, den]; 0.0 is [0, 1].
LRUHitRate(c) ==
  IF c.hits_ + c.misses_ > 0
  THEN [num |-> c.hits_, den |-> c.hits_ + c.misses_]
  ELSE [num |-> 0, den |-> 1]

\* -------------------------------------------------------------- BasicMetrics
NewMetrics ==
  [total_queries |-> 0, successful_queries |-> 0, failed_queries |-> 0,
   cache_hits |-> 0, cache_misses |-> 0, total_retries |-> 0, errors |-> 0]

\* What std::mutex::lock() does when the calling thread already owns the
\* mutex: it never returns, it throws std::system_error, or it returns.
RelockOutcomes == {"deadlock", "throw", "relock"}

\* std::lock_guard lock(mutex_) at the head of every record* method, called
\* by the thread that serves resolve() call q: it waits for ever when a
\* thread that hangs in cleanupOldStats holds the mutex.
MetricsLockBlocks(s) == s.m_mutex = "held"

Block(s, q) == [s EXCEPT !.blocked = TRUE, !.stuck = @ \cup {q}]

\* BasicMetrics::cleanupOldStats, called by recordQuery with mutex_ held.
CleanupOldStats(s, q, ub) ==
  IF ~s.m_stale THEN s
  ELSE IF ub = "deadlock" THEN Block([s EXCEPT !.m_mutex = "held"], q)
  ELSE IF ub = "throw" THEN s
  ELSE [s EXCEPT !.m_stale = FALSE]

RecordQuery(s, q, hostname, success, ub) ==
  IF MetricsLockBlocks(s) THEN Block(s, q)
  ELSE CleanupOldStats(
         [s EXCEPT !.metrics.total_queries = @ + 1,
                   !.metrics.successful_queries = IF success THEN @ + 1 ELSE @,
                   !.metrics.failed_queries = IF success THEN @ ELSE @ + 1],
         q, ub)

RecordCacheHit(s, q, hostname) ==
  IF MetricsLockBlocks(s) THEN Block(s, q) ELSE [s EXCEPT !.metrics.cache_hits = @ + 1]

RecordCacheMiss(s, q, hostname) ==
  IF MetricsLockBlocks(s) THEN Block(s, q) ELSE [s EXCEPT !.metrics.cache_misses = @ + 1]

RecordError(s, q, type) ==
  IF MetricsLockBlocks(s) THEN Block(s, q) ELSE [s EXCEPT !.metrics.errors = @ + 1]

RecordRetry(s, q, hostname, attempt) ==
  IF MetricsLockBlocks(s) THEN Block(s, q) ELSE [s EXCEPT !.metrics.total_retries = @ + 1]

\* ------------------------------------------------------------------- inputs
\* Hostnames passed to resolve(): two valid names and one that fails validation.
Hostnames == {<<"a">>, <<"b">>, <<"-", "a">>}

\* What the c-ares channel reports for one attempt; ARES_SUCCESS with no
\* address is a reply whose nodes handleResult skips.  ARES_ESERVFAIL stands
\* for every status the retry test lets through (ARES_ETIMEOUT,
\* ARES_ECONNREFUSED, ...): no line of the resolver tells them apart.
Outcomes ==
  {[status |-> "SUCCESS", ips |-> <<"1.1.1.1">>],
   [status |-> "SUCCESS", ips |-> <<"2.2.2.2">>],
   [status |-> "SUCCESS", ips |-> <<>>],
   [status |-> "ENOTFOUND", ips |-> <<>>],
   [status |-> "ENODATA", ips |-> <<>>],
   [status |-> "ESERVFAIL", ips |-> <<>>]}

Config(servers, timeout, attempts, base, max, concurrent) ==
  [servers |-> servers, query_timeout_ms |-> timeout,
   retry |-> [max_attempts |-> attempts, base_delay_ms |-> base, max_delay_ms |-> max],
   max_concurrent_queries |-> concurrent,
   cache |-> [max_size |-> 2, ttl |-> 1]]

\* Configurations held by the ConfigManager when the resolver is constructed.
Configs ==
  {Config(1, 5000, 2, U32(0, 10), U32(0, 100), 100),
   Config(1, 5000, 2, U32(32768, 0), U32(65535, 65535), 1),
   Config(1, 5000, 1, U32(0, 100), U32(0, 1000), 0),
   Config(1, 5000, 1, U32(0, 100), U32(0, 50), 100)}

\* -------------------------------------------------------------------- state
VARIABLES
  now,                \* wall clock, in cache-TTL ticks
  config,             \* ConfigManager::config_
  initialized,        \* DNSResolver::initialized_
  init_ret,           \* what DNSResolver::initialize() returned ("none" before the call)
  active_contexts,    \* DNSResolver::active_contexts_
  cache,              \* DNSResolver::activeCache_ (an LRUCache)
  metrics,            \* BasicMetrics counters
  m_stale,            \* steady_clock::now() - BasicMetrics::last_cleanup_ >= CLEANUP_INTERVAL
  m_mutex,            \* BasicMetrics::mutex_: "free", or "held" by a thread that hangs
  stuck,              \* resolve() calls whose serving thread hangs in the metrics engine
  log,                \* published events, cache updates and user callbacks, in the order
                      \* they happen
  s_initialized,      \* CaresQueryStrategy::initialized_
  s_active_contexts,  \* CaresQueryStrategy::active_contexts_
  channel,            \* ids of the contexts whose lookup is pending on the c-ares channel
  pump,               \* <<>>, or <<p>> while the pump thread sleeps or hangs in handleQueryResult
  sdphase,            \* progress of DNSResolver::shutdown(): "none", "cancel", "done", "blocked"
  nresolves,          \* number of resolve() calls made
  calls,              \* per resolve() call: its hostname, whether it was admitted, and the
                      \* addresses cache_ stored for the hostname when the call was made
  delivered,          \* per resolve() call: the results its user callback received
  dispatches,         \* per resolve() call: number of IDNSQueryStrategy::query calls
  handled,            \* per resolve() call: <<retry_count, status>> of each handleQueryResult
  cancelled,          \* resolve() calls whose pending attempt ares_cancel has ended
  vh_input,           \* hostname validation: the input
  vh_result,          \* hostname validation: "unchecked", "valid" or "invalid"
  lc,                 \* an LRUCache driven through its public interface
  lc_now,             \* system_clock::now() as that cache's calls read it
  lc_gets,            \* number of get calls on that cache that have returned
  lc_last,            \* the last call on that cache: arguments, clock reads, result
  sv_config,          \* CaresQueryStrategy::config_: servers and server_error_threshold
  server_health,      \* CaresQueryStrategy::server_health_
  latency_history,    \* CaresQueryStrategy::latency_history_
  sv_pending,         \* the attempts dispatched and not completed: for each, the server
                      \* selectServer() returned in query()
  sv_last,            \* the last selectServer() call made by query(): the parity of the
                      \* number of calls, the eligible servers, the result
  sd_calls,           \* number of DNSResolver::shutdown() calls made
  change_handler,     \* ConfigManager::changeHandler_: "none", or "resolver" for the
                      \* lambda DNSResolver::initialize registers
  nupdates,           \* number of ConfigManager::updateConfig calls made
  hcc,                \* the DNSResolver::handleConfigChange invocations, in order: the
                      \* snapshot passed, and how far shutdown() had got
  cm,                 \* a ConfigManager driven through its public interface
  cm_last,            \* the last call on that ConfigManager: arguments and outcome
  ep,                 \* an EventPublisher: per event, the subscribed handlers in order
  ep_last,            \* the last publish* call on it: the event, how often each
                      \* subscriber was invoked, whether an exception left the call
  rs,                 \* a RunningStats: count_, mean_, m2_, min_, max_
  rs_in,              \* the values passed to its update() since the last reset()
  bm,                 \* a BasicMetrics called by several threads: its counters, the
                      \* owner of mutex_, whether CLEANUP_INTERVAL has elapsed
  bm_threads,         \* per thread: where it is in its call, and the Stats its last
                      \* getStats() returned
  bm_calls,           \* per kind of call: how many have started and have returned
  cs,                 \* a CaresQueryStrategy on its own: initialized_, channel_, the
                      \* size of active_contexts_ and how many of them have completed
                      \* set, whether config_.servers is non-empty
  cs_last,            \* the last call made on it and what it did
  lk,                 \* the two contexts mutexes (owner thread, 0 when free), the
                      \* strategy's pending contexts, max_concurrent_queries
  lk_pc,              \* per thread: where it is in resolve() or in the strategy's shutdown()
  lk_last,            \* the last call out of a component: what was called, by which
                      \* thread, and the mutexes that thread held
  qd,                 \* BasicMetrics::query_durations_ of a BasicMetrics on its own
  qd_last,            \* the last getPrometheusMetrics() on it: the durations it saw,
                      \* the indices it used and the quantiles it wrote
  dr,                 \* a DNSResolver being initialised: initialized_, activeQueryStrategy_,
                      \* activeCache_, and what each initialize() call returned
  dr_init,            \* the thread inside initialize(): where it is, and whether the
                      \* configuration is valid and the factories deliver
  dr_res              \* the thread inside resolve(): where it is and what it has read

vars ==
  <<now, config, initialized, init_ret, active_contexts, cache, metrics, m_stale, m_mutex,
    stuck, log, s_initialized, s_active_contexts, channel, pump, sdphase, nresolves, calls,
    delivered, dispatches, handled, cancelled, vh_input, vh_result, lc, lc_now, lc_gets,
    lc_last, sv_config, server_health, latency_history, sv_pending, sv_last, sd_calls, change_handler,
    nupdates, hcc, cm, cm_last, ep, ep_last, rs, rs_in, bm, bm_threads, bm_calls,
    cs, cs_last, lk, lk_pc, lk_last, qd, qd_last, dr, dr_init, dr_res>>

\* The resolver's life cycle and its ConfigManager.
lvars == <<sd_calls, change_handler, nupdates, hcc>>

\* The resolver and the hostname validation.
rvars ==
  <<now, config, initialized, init_ret, active_contexts, cache, metrics, m_stale, m_mutex,
    stuck, log, s_initialized, s_active_contexts, channel, pump, sdphase, nresolves, calls,
    delivered, dispatches, handled, cancelled, vh_input, vh_result, lvars>>

\* The LRUCache driven on its own.
cvars == <<lc, lc_now, lc_gets, lc_last>>

\* The strategy's server selection driven on its own.
svars == <<sv_config, server_health, latency_history, sv_pending, sv_last>>

\* The ConfigManager driven on its own.
mvars == <<cm, cm_last>>

\* The components driven on their own, the cache and the selection apart.
\* The EventPublisher driven on its own.
pvars == <<ep, ep_last>>

\* The RunningStats driven on its own.
tvars == <<rs, rs_in>>

\* The BasicMetrics called by several threads.
bvars == <<bm, bm_threads, bm_calls>>

\* The CaresQueryStrategy on its own.
ivars == <<cs, cs_last>>

\* The contexts mutexes of the resolver and of the strategy.
kvars == <<lk, lk_pc, lk_last>>

\* The query durations and their export.
qvars == <<qd, qd_last>>

\* The resolver while initialize() and resolve() run side by side.
uvars == <<dr, dr_init, dr_res>>

ovars == <<mvars, pvars, tvars, bvars, ivars, kvars, qvars, uvars>>

\* What the calls on one of these components leave alone.
besides_cm == <<pvars, tvars, bvars, ivars, kvars, qvars, uvars>>
besides_ep == <<mvars, tvars, bvars, ivars, kvars, qvars, uvars>>
besides_rs == <<mvars, pvars, bvars, ivars, kvars, qvars, uvars>>
besides_bm == <<mvars, pvars, tvars, ivars, kvars, qvars, uvars>>
besides_cs == <<mvars, pvars, tvars, bvars, kvars, qvars, uvars>>
besides_lk == <<mvars, pvars, tvars, bvars, ivars, qvars, uvars>>
besides_qd == <<mvars, pvars, tvars, bvars, ivars, kvars, uvars>>
besides_dr == <<mvars, pvars, tvars, bvars, ivars, kvars, qvars>>

aux == <<cvars, svars, ovars>>

Calls == 1..MaxResolves

\* A resolve() call not made yet. retry: the retry settings of the snapshot
\* ConfigManager held when resolve() was called.
NoCallMade ==
  [hostname |-> EmptyName, admitted |-> FALSE, cached |-> <<>>,
   retry |-> [max_attempts |-> 0, base_delay_ms |-> U32(0, 0), max_delay_ms |-> U32(0, 0)]]

\* The part of the state a handler's call chain reads and writes, as one
\* value; blocked: the thread running the handler waits for ever.
St ==
  [cache |-> cache, metrics |-> metrics, m_stale |-> m_stale, m_mutex |-> m_mutex,
   stuck |-> stuck, log |-> log, delivered |-> delivered, dispatches |-> dispatches,
   handled |-> handled, cancelled |-> cancelled, blocked |-> FALSE]

ApplySt(s) ==
  /\ cache' = s.cache
  /\ metrics' = s.metrics
  /\ m_stale' = s.m_stale
  /\ m_mutex' = s.m_mutex
  /\ stuck' = s.stuck
  /\ cancelled' = s.cancelled
  /\ log' = s.log
  /\ delivered' = s.delivered
  /\ dispatches' = s.dispatches
  /\ handled' = s.handled

\* No call made yet on the LRUCache under test.
NoCall == [op |-> "none", key |-> EmptyName, ips |-> <<>>, t |-> 0, t2 |-> 0,
           ret |-> "none", put |-> <<>>]

CacheAtRest ==
  /\ lc = NewLRUCache(0, 0)
  /\ lc_now = 0
  /\ lc_gets = 0
  /\ lc_last = NoCall

\* No selectServer() call made yet.
NoSelect == [made |-> FALSE, parity |-> 0, eligible |-> {}, ret |-> <<>>]

SelectAtRest ==
  /\ sv_config = [servers |-> <<>>, server_error_threshold |-> 0]
  /\ server_health = <<>>
  /\ latency_history = <<>>
  /\ sv_pending = <<>>
  /\ sv_last = NoSelect

LifecycleAtRest ==
  /\ sd_calls = 0
  /\ change_handler = "none"
  /\ nupdates = 0
  /\ hcc = <<>>

\* ------------------------------------------------------------------ double
\* A finite IEEE-754 binary64 value: its sign and the positions of the 1 bits
\* of its magnitude (the value is +/- the sum of 2^b over bits); zero has no
\* bits. Exact results are rounded to DBL_MANT_DIG significant bits, to
\* nearest, ties to even. Overflow, subnormals, NaN and the sign of zero are
\* left out: the values used stay far from the exponent limits.
SetMax(S) == CHOOSE x \in S : \A y \in S : y <= x

SetMin(S) == CHOOSE x \in S : \A y \in S : x <= y

\* S + T, carry look-ahead: a carry enters position i when some lower position
\* j holds a bit of both and every position between holds a bit of either.
BitsAdd(S, T) ==
  IF S = {} THEN T
  ELSE IF T = {} THEN S
  ELSE LET carry(i) == \E j \in S \cap T : j < i /\ (j + 1)..(i - 1) \subseteq S \cup T
       IN  {i \in SetMin(S \cup T)..(SetMax(S \cup T) + 1) :
              ((i \in S) # (i \in T)) # carry(i)}

BitsLess(S, T) == S # T /\ SetMax((S \ T) \cup (T \ S)) \in T

\* S - T for S >= T, borrow look-ahead: a borrow enters position i when some
\* lower position j holds a bit of T only and no position between holds a bit
\* of S only.
BitsSub(S, T) ==
  IF T = {} THEN S
  ELSE LET borrow(i) == \E j \in T \ S : j < i /\ (j + 1)..(i - 1) \cap (S \ T) = {}
       IN  {i \in SetMin(S \cup T)..SetMax(S \cup T) :
              ((i \in S) # (i \in T)) # borrow(i)}

\* S * T: the sum of S shifted by every bit of T, halving T.
RECURSIVE BitsMul(_, _)
BitsMul(S, T) ==
  IF T = {} \/ S = {} THEN {}
  ELSE IF Cardinality(T) = 1 THEN {a + SetMin(T) : a \in S}
  ELSE LET mid == CHOOSE m \in T :
                    Cardinality({t \in T : t < m}) = Cardinality(T) \div 2
       IN  BitsAdd(BitsMul(S, {t \in T : t < mid}), BitsMul(S, {t \in T : t >= mid}))

\* The bits of a natural number, and the natural number of a set of bits.
RECURSIVE NatBits(_)
NatBits(n) ==
  IF n = 0 THEN {}
  ELSE {b + 1 : b \in NatBits(n \div 2)} \cup (IF n % 2 = 1 THEN {0} ELSE {})

RECURSIVE BitsNat(_)
BitsNat(S) == IF S = {} THEN 0 ELSE Pow2(SetMax(S)) + BitsNat(S \ {SetMax(S)})

Double(neg, bits) == [neg |-> neg /\ bits # {}, bits |-> bits]

DZero == Double(FALSE, {})

DNeg(x) == Double(~x.neg, x.bits)

\* Exact sum and difference.
DAdd(x, y) ==
  IF x.neg = y.neg THEN Double(x.neg, BitsAdd(x.bits, y.bits))
  ELSE IF x.bits = y.bits THEN DZero
  ELSE IF BitsLess(x.bits, y.bits) THEN Double(y.neg, BitsSub(y.bits, x.bits))
  ELSE Double(x.neg, BitsSub(x.bits, y.bits))

DSub(x, y) == DAdd(x, DNeg(y))

DLess(x, y) ==
  IF x.neg # y.neg THEN x.neg
  ELSE IF x.neg THEN BitsLess(y.bits, x.bits)
  ELSE BitsLess(x.bits, y.bits)

\* Rounding of an exact magnitude; sticky: the exact value exceeds S by less
\* than the weight of S's lowest kept bit position examined.
RoundBits(S, sticky) ==
  IF S = {} THEN {}
  ELSE LET lsb == SetMax(S) - (DBL_MANT_DIG - 1)
           kept == {b \in S : b >= lsb}
           half == (lsb - 1) \in S
           below == sticky \/ \E b \in S : b < lsb - 1
       IN  IF half /\ (below \/ lsb \in S) THEN BitsAdd(kept, {lsb}) ELSE kept

\* a + b, a - b and a * b in double arithmetic.
FAdd(x, y) == LET e == DAdd(x, y) IN Double(e.neg, RoundBits(e.bits, FALSE))

FSub(x, y) == FAdd(x, DNeg(y))

FMul(x, y) == Double(x.neg # y.neg, RoundBits(BitsMul(x.bits, y.bits), FALSE))

\* Long division of the magnitude S by n < 65536, 15 bits at a time, from the
\* bits hi - 14 .. hi down to bit stop or below; r: the remainder so far,
\* acc: the quotient bits so far.
RECURSIVE DivBits(_, _, _, _, _, _)
DivBits(S, n, hi, stop, r, acc) ==
  IF hi < stop THEN [bits |-> acc, rem |-> r]
  ELSE LET lo == hi - 14
           r1 == r * 32768 + BitsNat({b - lo : b \in S \cap (lo..hi)})
       IN  DivBits(S, n, lo - 1, stop, r1 % n,
                   acc \cup {b + lo : b \in NatBits(r1 \div n)})

\* x / count_ in double arithmetic, count_ holding the natural number n >= 1.
FDiv(x, n) ==
  IF x.bits = {} THEN DZero
  ELSE LET top == SetMax(x.bits)
           low == SetMin(x.bits)
           stop == IF low < top - 2 * DBL_MANT_DIG THEN low ELSE top - 2 * DBL_MANT_DIG
           q == DivBits(x.bits, n, top, stop, 0, {})
       IN  Double(x.neg, RoundBits(q.bits, q.rem # 0))

\* std::numeric_limits<double>::max().
DBL_MAX == Double(FALSE, 971..1023)

\* ------------------------------------------------------------ RunningStats
NewRunningStats ==
  [count_ |-> 0, mean_ |-> DZero, m2_ |-> DZero, min_ |-> DBL_MAX, max_ |-> DNeg(DBL_MAX)]

\* RunningStats::update.
RSUpdate(r, value) ==
  LET count == r.count_ + 1
      delta == FSub(value, r.mean_)
      mean == FAdd(r.mean_, FDiv(delta, count))
      delta2 == FSub(value, mean)
  IN  [count_ |-> count,
       mean_ |-> mean,
       m2_ |-> FAdd(r.m2_, FMul(delta, delta2)),
       min_ |-> IF DLess(value, r.min_) THEN value ELSE r.min_,
       max_ |-> IF DLess(r.max_, value) THEN value ELSE r.max_]

RSMean(r) == r.mean_

RSCount(r) == r.count_

StatsAtRest ==
  /\ rs = NewRunningStats
  /\ rs_in = <<>>

\* The threads calling the BasicMetrics, and the kinds of calls counted.
MetricsThreads == {1, 2}

CallKinds == {"query_ok", "query_failed", "cache_hit", "cache_miss", "retry"}

MetricsAtRest ==
  /\ bm = [metrics |-> NewMetrics, mutex_ |-> 0, stale |-> FALSE]
  /\ bm_threads = [t \in MetricsThreads |-> [pc |-> "idle", kind |-> "none", stats |-> <<>>]]
  /\ bm_calls = [started |-> [k \in CallKinds |-> 0], returned |-> [k \in CallKinds |-> 0]]

\* CaresQueryStrategy after construction; no call made yet. ready records
\* whether the last initialize() that ran to its end created the channel
\* and no shutdown() followed.
NewStrategy(has_servers) ==
  [initialized_ |-> FALSE, channel_ |-> "null", contexts |-> 0, completed |-> 0,
   has_servers |-> has_servers]

NoStrategyCall ==
  [op |-> "none", env |-> "none", ret |-> "none", status |-> "none",
   dispatched |-> FALSE, ready |-> FALSE, flip |-> FALSE]

StrategyAtRest ==
  /\ cs = NewStrategy(TRUE)
  /\ cs_last = NoStrategyCall

\* The threads that call resolve() and the strategy's shutdown().
LockThreads == {1, 2}

NoCallOut == [call |-> "none", thread |-> 0, held |-> {}]

LocksAtRest ==
  /\ lk = [r_contexts_mutex |-> 0, s_contexts_mutex |-> 0, s_contexts |-> 0,
           max_concurrent_queries |-> 1]
  /\ lk_pc = [t \in LockThreads |-> "idle"]
  /\ lk_last = NoCallOut

NoExport == [made |-> FALSE, durations |-> <<>>, index |-> <<>>, quantile |-> <<>>]

DurationsAtRest ==
  /\ qd = <<>>
  /\ qd_last = NoExport

\* A DNSResolver after construction: initialized_{false}, the shared
\* pointers to the strategy and to the cache empty. outcome: per initialize()
\* call that won the compare_exchange, "running", "true" or "false".
NewResolver == [initialized_ |-> FALSE, activeQueryStrategy_ |-> "unset",
                activeCache_ |-> "unset", outcome |-> <<>>, again |-> 0]

NotInInitialize == [pc |-> "idle", valid |-> TRUE, strategy |-> TRUE, cache |-> TRUE]

NoResolve == [pc |-> "idle", n |-> 0, passed |-> FALSE, during |-> 0,
              activeCache_ |-> "unread", activeQueryStrategy_ |-> "unread",
              status |-> "none"]

StartupAtRest ==
  /\ dr = NewResolver
  /\ dr_init = NotInInitialize
  /\ dr_res = NoResolve

\* ConfigManager after construction; no call made yet.
NewConfigManager(c) == [config_ |-> c, changeHandler_ |-> "none", mutex_ |-> "free"]

NoConfigCall == [op |-> "none", parity |-> 0, config |-> <<>>, handler |-> "none",
                 ret |-> "none"]

ConfigManagerAtRest ==
  /\ cm = NewConfigManager(<<>>)
  /\ cm_last = NoConfigCall

\* The events of EventPublisher: address changed, query started, query completed.
Events == {"address_changed", "query_started", "query_completed"}

NoPublish == [made |-> FALSE, parity |-> 0, event |-> "none", invoked |-> <<>>,
              propagated |-> FALSE, returned |-> TRUE]

PublisherAtRest ==
  /\ ep = [e \in Events |-> <<>>]
  /\ ep_last = NoPublish

OthersAtRest == ConfigManagerAtRest /\ PublisherAtRest /\ StatsAtRest /\ MetricsAtRest
                /\ StrategyAtRest /\ LocksAtRest /\ DurationsAtRest /\ StartupAtRest

InitAux == CacheAtRest /\ SelectAtRest /\ OthersAtRest

Init ==
  /\ now = 0
  /\ config \in Configs
  /\ initialized = FALSE
  /\ init_ret = "none"
  /\ active_contexts = <<>>
  /\ cache = NewLRUCache(0, 0)
  /\ metrics = NewMetrics
  /\ m_stale = FALSE
  /\ m_mutex = "free"
  /\ stuck = {}
  /\ log = <<>>
  /\ s_initialized = FALSE
  /\ s_active_contexts = <<>>
  /\ channel = {}
  /\ pump = <<>>
  /\ sdphase = "none"
  /\ nresolves = 0
  /\ calls = [q \in Calls |-> NoCallMade]
  /\ delivered = [q \in Calls |-> <<>>]
  /\ dispatches = [q \in Calls |-> 0]
  /\ handled = [q \in Calls |-> <<>>]
  /\ cancelled = {}
  /\ vh_input = EmptyName
  /\ vh_result = "unchecked"
  /\ LifecycleAtRest
  /\ InitAux

\* ------------------------------------------------------------ EventPublisher
PublishQueryStarted(s, hostname) ==
  [s EXCEPT !.log = Append(@, [type |-> "query_started", hostname |-> hostname])]

PublishQueryCompleted(s, hostname, ips, success) ==
  [s EXCEPT !.log = Append(@, [type |-> "query_completed", hostname |-> hostname,
                               ips |-> ips, success |-> success])]

PublishAddressChanged(s, hostname, old, new) ==
  [s EXCEPT !.log = Append(@, [type |-> "address_changed", hostname |-> hostname,
                               old_addresses |-> old, new_addresses |-> new])]

\* The user's ResolveCallback of resolve() call q is invoked with res.
UserCallback(s, q, res) ==
  [s EXCEPT !.delivered[q] = Append(@, res),
            !.log = Append(@, [type |-> "user_callback", call |-> q, result |-> res])]

\* --------------------------------------------------------------- DNSResolver
\* An early rejection placed after publishQueryStarted.
Reject_AfterQueryStarted(s, q, status, hostname) ==
  UserCallback(PublishQueryStarted(s, hostname), q, Result(status, hostname, <<>>, FALSE))

\* resolve()'s early rejections: the callback and nothing else.
Reject(s, q, status, hostname) ==
  UserCallback(s, q, Result(status, hostname, <<>>, FALSE))

\* else-if of handleQueryResult: the statuses that enter the retry branch.
Retryable(status) ==
  status # "SUCCESS" /\ status # "ENODATA" /\ status # "ENOTFOUND"

\* DNSResolver::notifyAddressChange.
NotifyAddressChange(s, hostname, old, new) == PublishAddressChanged(s, hostname, old, new)

\* The tail of handleQueryResult with its two statements exchanged.
Finish_CompletedFirst(s, q, res) ==
  UserCallback(PublishQueryCompleted(s, res.hostname, res.ip_addresses,
                                     res.status = "SUCCESS"), q, res)

\* The tail of handleQueryResult: the user callback, then query_completed.
Finish(s, q, res) ==
  PublishQueryCompleted(UserCallback(s, q, res), res.hostname, res.ip_addresses,
                        res.status = "SUCCESS")

\* DNSResolver::handleQueryResult up to its return, its sleep_for, or the
\* point where its thread hangs.
\* next = "done": the callback ran; next = "retry": recordRetry ran and the
\* thread sleeps `delay` before calling query() with retry_count;
\* next = "blocked": the thread waits for ever inside the metrics engine.
HandleQueryResult(s, q, retry_count, res, ub) ==
  LET g == LRUGet(s.cache, res.hostname, now)
      old_addresses == g.ips
      s0 == [s EXCEPT !.cache = g.cache,
                      !.handled[q] = Append(@, <<retry_count, res.status>>)]
      m1 == RecordQuery(s0, q, res.hostname, res.status = "SUCCESS", ub)
      s1 == IF res.status # "SUCCESS" /\ ~m1.blocked
            THEN RecordError(m1, q, "resolution_failure")
            ELSE m1
      none == [retry_count |-> retry_count, hostname |-> res.hostname, delay |-> U32(0, 0)]
  IN  IF s1.blocked
      THEN [s |-> s1, next |-> "blocked", retry |-> none]
      ELSE IF res.status = "SUCCESS" /\ res.ip_addresses # <<>>
      THEN LET s2 == [s1 EXCEPT !.cache = LRUUpdate(@, res.hostname, res.ip_addresses, now),
                                !.log = Append(@, [type |-> "cache_updated",
                                                   hostname |-> res.hostname,
                                                   ips |-> res.ip_addresses])]
               s3 == IF old_addresses # res.ip_addresses
                     THEN NotifyAddressChange(s2, res.hostname, old_addresses, res.ip_addresses)
                     ELSE s2
           IN  [s |-> Finish(s3, q, res), next |-> "done", retry |-> none]
      ELSE IF Retryable(res.status) /\ retry_count < config.retry.max_attempts
      THEN LET s2 == RecordRetry(s1, q, res.hostname, retry_count + 1)
           IN  [s |-> s2,
                next |-> IF s2.blocked THEN "blocked" ELSE "retry",
                retry |-> [retry_count |-> retry_count + 1, hostname |-> res.hostname,
                           delay |-> BackoffDelay(config.retry, retry_count + 1)]]
      ELSE [s |-> Finish(s1, q, res), next |-> "done", retry |-> none]

\* CaresQueryStrategy::query on a strategy that is not initialised:
\* callback({.status = ARES_ENOTINITIALIZED}), every other field defaulted.
NotInitializedResult == Result("ENOTINITIALIZED", EmptyName, <<>>, FALSE)

\* handleQueryResult and the retries it makes while query() answers
\* NotInitialized synchronously (one call stack; the sleeps are elided).
RECURSIVE RetryChain(_, _, _, _, _)
RetryChain(s, q, retry_count, res, ub) ==
  LET r == HandleQueryResult(s, q, retry_count, res, ub)
  IN  IF r.next # "retry" THEN r.s
      ELSE RetryChain([r.s EXCEPT !.dispatches[q] = @ + 1], q, r.retry.retry_count,
                      NotInitializedResult, ub)

\* -------------------------------------------------------- CaresQueryStrategy
Context(q, hostname, retry_count) ==
  [id |-> <<q, retry_count>>, q |-> q, hostname |-> hostname,
   retry_count |-> retry_count, completed |-> FALSE]

MarkCompleted(ctxs, id) ==
  [i \in DOMAIN ctxs |-> IF ctxs[i].id = id THEN [ctxs[i] EXCEPT !.completed = TRUE] ELSE ctxs[i]]

\* CaresQueryStrategy::cleanupCompletedContexts.
CleanupCompletedContexts(ctxs) == SelectSeq(ctxs, LAMBDA c : ~c.completed)

\* The pump thread inside handleQueryResult for context ctx of call q:
\* "sleeping" in sleep_for, or "blocked" for ever.
PumpIn(state, ctx, q, retry) ==
  <<[state |-> state, ctx |-> ctx, q |-> q, retry_count |-> retry.retry_count,
     hostname |-> retry.hostname, delay |-> retry.delay]>>

\* DNSResolver::initialize: validates the snapshot, creates strategy and cache,
\* registers the change handler. The CaresQueryStrategy constructor runs
\* initialize(), whose compare_exchange sets initialized_. phase: "none" for
\* the first call, "done" for a call made after shutdown() has returned.
InitializeFrom(phase) ==
  /\ ~initialized
  /\ sdphase = phase
  /\ IF validateConfig(config)
     THEN /\ initialized' = TRUE
          /\ s_initialized' = TRUE
          /\ cache' = NewLRUCache(config.cache.max_size, config.cache.ttl)
          /\ change_handler' = "resolver"
          /\ init_ret' = "true"
          /\ sdphase' = "none"
     ELSE /\ init_ret' = "false"
          /\ UNCHANGED <<initialized, s_initialized, cache, change_handler, sdphase>>
  /\ UNCHANGED <<now, config, active_contexts, metrics, m_stale, m_mutex, stuck, log,
                 s_active_contexts, channel, pump, nresolves, calls, delivered,
                 dispatches, handled, cancelled, vh_input, vh_result, sd_calls, nupdates,
                 hcc, aux>>

Initialize == InitializeFrom("none")

\* resolve()'s concurrency check.
Busy == Len(active_contexts) >= config.max_concurrent_queries

\* DNSResolver::resolve(hostname, callback), the callback being that of call q.
Resolve(hostname, ub) ==
  /\ nresolves < MaxResolves
  /\ nresolves' = nresolves + 1
  /\ LET q == nresolves + 1
         admitted == initialized /\ isValidHostname(hostname) /\ ~Busy
         s0 == PublishQueryStarted(St, hostname)
         g == LRUGet(s0.cache, hostname, now)
         s1 == [s0 EXCEPT !.cache = g.cache]
         hit == RecordCacheHit(s1, q, hostname)
         miss == RecordCacheMiss(s1, q, hostname)
         sent == [miss EXCEPT !.dispatches[q] = @ + 1]
     IN  /\ calls' = [calls EXCEPT ![q] = [hostname |-> hostname, admitted |-> admitted,
                                            cached |-> Stored(cache, hostname),
                                            retry |-> config.retry]]
         /\ IF ~initialized
            THEN /\ ApplySt(Reject(St, q, "ENOTINITIALIZED", hostname))
                 /\ UNCHANGED <<s_active_contexts, channel>>
            ELSE IF ~isValidHostname(hostname)
            THEN /\ ApplySt(Reject(St, q, "EBADNAME", hostname))
                 /\ UNCHANGED <<s_active_contexts, channel>>
            ELSE IF Busy
            THEN /\ ApplySt(Reject(St, q, "EOF", hostname))
                 /\ UNCHANGED <<s_active_contexts, channel>>
            ELSE IF g.hit
            THEN /\ ApplySt(IF hit.blocked THEN hit
                            ELSE PublishQueryCompleted(
                                   UserCallback(hit, q, Result("SUCCESS", hostname, g.ips, TRUE)),
                                   hostname, g.ips, TRUE))
                 /\ UNCHANGED <<s_active_contexts, channel>>
            ELSE IF miss.blocked
            THEN /\ ApplySt(miss)
                 /\ UNCHANGED <<s_active_contexts, channel>>
            ELSE IF ~s_initialized
            THEN /\ ApplySt(RetryChain(sent, q, 0, NotInitializedResult, ub))
                 /\ UNCHANGED <<s_active_contexts, channel>>
            ELSE /\ ApplySt(sent)
                 /\ s_active_contexts' = Append(s_active_contexts, Context(q, hostname, 0))
                 /\ channel' = channel \cup {<<q, 0>>}
  /\ UNCHANGED <<now, config, initialized, init_ret, active_contexts, s_initialized, pump,
                 sdphase, vh_input, vh_result, lvars, aux>>

\* processEvents(): ares_process completes the pending lookup of context c
\* with outcome o; handleResult invokes the context's callback, which is
\* handleQueryResult.  When that returns, the context is marked completed
\* and cleanupCompletedContexts drops it; when it sleeps, the pump thread is
\* held until RetryWake; when it hangs, the pump thread is held for ever.
HandleCompletion(c, o, ub) ==
  /\ initialized
  /\ s_initialized
  /\ pump = <<>>
  /\ c.id \in channel
  /\ channel' = channel \ {c.id}
  /\ LET r == HandleQueryResult(St, c.q, c.retry_count,
                                Result(o.status, c.hostname, o.ips, FALSE), ub)
     IN  /\ ApplySt(r.s)
         /\ IF r.next = "done"
            THEN /\ s_active_contexts' =
                      CleanupCompletedContexts(MarkCompleted(s_active_contexts, c.id))
                 /\ pump' = pump
            ELSE /\ pump' = PumpIn(IF r.next = "retry" THEN "sleeping" ELSE "blocked",
                                   c.id, c.q, r.retry)
                 /\ s_active_contexts' = s_active_contexts
  /\ UNCHANGED <<now, config, initialized, init_ret, active_contexts, s_initialized,
                 sdphase, nresolves, calls, vh_input, vh_result, lvars, aux>>

\* The sleep_for of handleQueryResult ends: query() is called with the
\* incremented retry_count, handleResult marks the old context completed,
\* and processEvents sweeps it.
RetryWake(ub) ==
  /\ pump # <<>>
  /\ pump[1].state = "sleeping"
  /\ LET p == pump[1]
         s0 == [St EXCEPT !.dispatches[p.q] = @ + 1]
         s1 == RetryChain(s0, p.q, p.retry_count, NotInitializedResult, ub)
     IN  IF s_initialized
         THEN /\ ApplySt(s0)
              /\ pump' = <<>>
              /\ s_active_contexts' =
                   CleanupCompletedContexts(MarkCompleted(
                     Append(s_active_contexts, Context(p.q, p.hostname, p.retry_count)),
                     p.ctx))
              /\ channel' = channel \cup {<<p.q, p.retry_count>>}
         ELSE /\ ApplySt(s1)
              /\ pump' = IF s1.blocked THEN <<[p EXCEPT !.state = "blocked"]>> ELSE <<>>
              /\ s_active_contexts' =
                   IF s1.blocked THEN s_active_contexts
                   ELSE CleanupCompletedContexts(MarkCompleted(s_active_contexts, p.ctx))
              /\ channel' = channel
  /\ UNCHANGED <<now, config, initialized, init_ret, active_contexts, s_initialized,
                 sdphase, nresolves, calls, vh_input, vh_result, lvars, aux>>

\* DNSResolver::shutdown up to ares_cancel: both compare_exchange succeed.
ShutdownBegin ==
  /\ initialized
  /\ sd_calls < MaxShutdowns
  /\ initialized' = FALSE
  /\ s_initialized' = FALSE
  /\ sdphase' = "cancel"
  /\ sd_calls' = sd_calls + 1
  /\ UNCHANGED <<now, config, init_ret, active_contexts, cache, metrics, m_stale, m_mutex,
                 stuck, log, s_active_contexts, channel, pump, nresolves,
                 calls, delivered, dispatches, handled, cancelled, vh_input, vh_result,
                 change_handler, nupdates, hcc, aux>>

\* ares_cancel: handleResult(ctx, ARES_ECANCELLED) for every pending lookup.
RECURSIVE AresCancel(_, _, _)
AresCancel(s, ctxs, ub) ==
  IF ctxs = <<>> \/ s.blocked THEN s
  ELSE AresCancel(RetryChain([s EXCEPT !.cancelled = @ \cup {Head(ctxs).q}],
                             Head(ctxs).q, Head(ctxs).retry_count,
                             Result("ECANCELLED", Head(ctxs).hostname, <<>>, FALSE), ub),
                  Tail(ctxs), ub)

\* shutdown()'s loop over active_contexts_: callback({.status = ARES_ECANCELLED}).
RECURSIVE CancelLoop(_, _, _)
CancelLoop(s, ctxs, ub) ==
  IF ctxs = <<>> \/ s.blocked THEN s
  ELSE CancelLoop(RetryChain(s, Head(ctxs).q, Head(ctxs).retry_count,
                             Result("ECANCELLED", EmptyName, <<>>, FALSE), ub),
                  Tail(ctxs), ub)

\* CaresQueryStrategy::shutdown from ares_cancel on (it takes the channel,
\* so it waits for a pump thread that is inside ares_process).
ShutdownCancel(ub) ==
  /\ sdphase = "cancel"
  /\ pump = <<>>
  /\ LET pending == SelectSeq(s_active_contexts, LAMBDA c : c.id \in channel)
         s1 == CancelLoop(AresCancel(St, pending, ub), s_active_contexts, ub)
     IN  /\ ApplySt(s1)
         /\ IF s1.blocked
            THEN /\ s_active_contexts' = s_active_contexts
                 /\ channel' = {id \in channel : id[1] \notin s1.cancelled}
                 /\ sdphase' = "blocked"
            ELSE /\ s_active_contexts' = <<>>
                 /\ channel' = {}
                 /\ sdphase' = "done"
  /\ UNCHANGED <<now, config, initialized, init_ret, active_contexts, s_initialized, pump,
                 nresolves, calls, vh_input, vh_result, lvars, aux>>

\* Time passes (cache entries age).
Tick ==
  /\ now < MaxTime
  /\ now' = now + 1
  /\ UNCHANGED <<config, initialized, init_ret, active_contexts, cache, metrics, m_stale,
                 m_mutex, stuck, log, s_initialized, s_active_contexts, channel, pump,
                 sdphase, nresolves, calls, delivered, dispatches, handled, cancelled,
                 vh_input, vh_result, lvars, aux>>

\* CLEANUP_INTERVAL has passed since BasicMetrics::last_cleanup_.
CleanupIntervalElapses ==
  /\ ~m_stale
  /\ m_stale' = TRUE
  /\ UNCHANGED <<now, config, initialized, init_ret, active_contexts, cache, metrics,
                 m_mutex, stuck, log, s_initialized, s_active_contexts, channel, pump,
                 sdphase, nresolves, calls, delivered, dispatches, handled, cancelled,
                 vh_input, vh_result, lvars, aux>>

Next ==
  \/ Initialize
  \/ \E h \in Hostnames, ub \in RelockOutcomes : Resolve(h, ub)
  \/ \E i \in DOMAIN s_active_contexts, o \in Outcomes, ub \in RelockOutcomes :
       HandleCompletion(s_active_contexts[i], o, ub)
  \/ \E ub \in RelockOutcomes : RetryWake(ub)
  \/ ShutdownBegin
  \/ \E ub \in RelockOutcomes : ShutdownCancel(ub)
  \/ Tick
  \/ CleanupIntervalElapses

Spec == Init /\ [][Next]_vars

\* ------------------------------------- life cycle and configuration updates
\* The resolver together with further shutdown() and initialize() calls and
\* with ConfigManager::updateConfig calls made while it runs; the clock stands
\* still, the metrics cleanup interval does not elapse, and
\* MaxLifecycleResolves resolve() calls are made.

\* initialize() called again after shutdown() has returned.
Reinitialize == InitializeFrom("done")

\* DNSResolver::shutdown called again while initialized_ is false: the
\* compare_exchange fails, a warning is logged, the call returns.
ShutdownAgain ==
  /\ ~initialized
  /\ sd_calls >= 1
  /\ sd_calls < MaxShutdowns
  /\ sd_calls' = sd_calls + 1
  /\ UNCHANGED <<now, config, initialized, init_ret, active_contexts, cache, metrics,
                 m_stale, m_mutex, stuck, log, s_initialized, s_active_contexts, channel,
                 pump, sdphase, nresolves, calls, delivered, dispatches, handled,
                 cancelled, vh_input, vh_result, change_handler, nupdates, hcc, aux>>

\* One DNSResolver::handleConfigChange invocation.
ConfigChange(c) == [config |-> c, valid |-> validateConfig(c), sdphase |-> sdphase]

\* ConfigManager::updateConfig(c): config_ = c, then notifyConfigChange()
\* invokes changeHandler_ when one is registered.
UpdateConfig(c) ==
  /\ nupdates < MaxUpdates
  /\ nupdates' = nupdates + 1
  /\ config' = c
  /\ hcc' = IF change_handler = "resolver" THEN Append(hcc, ConfigChange(c)) ELSE hcc
  /\ UNCHANGED <<now, initialized, init_ret, active_contexts, cache, metrics, m_stale,
                 m_mutex, stuck, log, s_initialized, s_active_contexts, channel, pump,
                 sdphase, nresolves, calls, delivered, dispatches, handled, cancelled,
                 vh_input, vh_result, sd_calls, change_handler, aux>>

InitLifecycle ==
  /\ Init
  /\ config = Config(1, 5000, 2, U32(0, 10), U32(0, 100), 100)

NextLifecycle ==
  \/ Initialize
  \/ \E h \in Hostnames, ub \in RelockOutcomes :
       nresolves < MaxLifecycleResolves /\ Resolve(h, ub)
  \/ \E i \in DOMAIN s_active_contexts, o \in Outcomes, ub \in RelockOutcomes :
       HandleCompletion(s_active_contexts[i], o, ub)
  \/ \E ub \in RelockOutcomes : RetryWake(ub)
  \/ ShutdownBegin
  \/ \E ub \in RelockOutcomes : ShutdownCancel(ub)
  \/ Reinitialize
  \/ ShutdownAgain
  \/ \E c \in Configs : UpdateConfig(c)

SpecLifecycle == InitLifecycle /\ [][NextLifecycle]_vars

\* ------------------------------------------------------ hostname validation
\* isValidHostname applied to one input: every text of up to MaxNameLen
\* characters, and texts at the label and hostname length limits.
MaxNameLen == 3

NameChars == {"a", "0", "-", ".", "_"}

Label63 == Rep("a", MAX_LABEL_LENGTH)

HostnameInputs ==
  UNION {[1..n -> NameChars] : n \in 0..MaxNameLen}
  \cup {Label63, Label63 \o <<"a">>,
        Label63 \o <<".">> \o Label63 \o <<".">> \o Label63 \o <<".">> \o Rep("a", 61),
        Label63 \o <<".">> \o Label63 \o <<".">> \o Label63 \o <<".">> \o Rep("a", 62),
        Label63 \o <<".">>, <<"a", ".", "b", ".">>, <<"a", ".", ".", "b">>}

InitHostname ==
  /\ now = 0
  /\ config \in Configs
  /\ initialized = FALSE
  /\ init_ret = "none"
  /\ active_contexts = <<>>
  /\ cache = NewLRUCache(0, 0)
  /\ metrics = NewMetrics
  /\ m_stale = FALSE
  /\ m_mutex = "free"
  /\ stuck = {}
  /\ log = <<>>
  /\ s_initialized = FALSE
  /\ s_active_contexts = <<>>
  /\ channel = {}
  /\ pump = <<>>
  /\ sdphase = "none"
  /\ nresolves = 0
  /\ calls = [q \in Calls |-> NoCallMade]
  /\ delivered = [q \in Calls |-> <<>>]
  /\ dispatches = [q \in Calls |-> 0]
  /\ handled = [q \in Calls |-> <<>>]
  /\ cancelled = {}
  /\ vh_input \in HostnameInputs
  /\ vh_result = "unchecked"
  /\ LifecycleAtRest
  /\ InitAux

ValidateHostname ==
  /\ vh_result = "unchecked"
  /\ vh_result' = IF isValidHostname(vh_input) THEN "valid" ELSE "invalid"
  /\ UNCHANGED <<now, config, initialized, init_ret, active_contexts, cache, metrics,
                 m_stale, m_mutex, stuck, log, s_initialized, s_active_contexts, channel,
                 pump, sdphase, nresolves, calls, delivered, dispatches, handled,
                 cancelled, vh_input, lvars, aux>>

SpecHostname == InitHostname /\ [][ValidateHostname]_vars

\* ------------------------------------------------------ the LRUCache alone
\* One LRUCache, constructed with any max_size and ttl, and called through
\* ICache: get, update, remove, clear, with the clock advancing between and
\* inside the calls.
CacheKeys == {<<"a">>, <<"b">>, <<"c">>}

CacheValues == {<<"1.1.1.1">>, <<"2.2.2.2", "1.1.1.1">>}

\* The resolver and the hostname validation at rest.
ResolverAtRest ==
  /\ now = 0
  /\ config = Config(1, 5000, 2, U32(0, 10), U32(0, 100), 100)
  /\ initialized = FALSE
  /\ init_ret = "none"
  /\ active_contexts = <<>>
  /\ cache = NewLRUCache(0, 0)
  /\ metrics = NewMetrics
  /\ m_stale = FALSE
  /\ m_mutex = "free"
  /\ stuck = {}
  /\ log = <<>>
  /\ s_initialized = FALSE
  /\ s_active_contexts = <<>>
  /\ channel = {}
  /\ pump = <<>>
  /\ sdphase = "none"
  /\ nresolves = 0
  /\ calls = [q \in Calls |-> NoCallMade]
  /\ delivered = [q \in Calls |-> <<>>]
  /\ dispatches = [q \in Calls |-> 0]
  /\ handled = [q \in Calls |-> <<>>]
  /\ cancelled = {}
  /\ vh_input = EmptyName
  /\ vh_result = "unchecked"
  /\ LifecycleAtRest

InitCache ==
  /\ ResolverAtRest
  /\ SelectAtRest
  /\ OthersAtRest
  /\ \E max_size \in 0..MaxSize, ttl \in 1..MaxTtl : lc = NewLRUCache(max_size, ttl)
  /\ lc_now = 0
  /\ lc_gets = 0
  /\ lc_last = NoCall

\* The process was terminated inside a call.
Faulted == lc_last.ret = "fault"

\* get(hostname, ips): the clock reads t = lc_now in cleanup() and t2 at line 15.
CacheGet(hostname, t2, ub) ==
  /\ ~Faulted
  /\ lc_gets < MaxGets
  /\ t2 \in {lc_now, lc_now + 1}
  /\ t2 <= MaxCacheTime
  /\ LET g == LRUGetAt(lc, hostname, lc_now, t2, ub)
     IN  /\ lc' = g.cache
         /\ lc_gets' = IF g.fault THEN lc_gets ELSE lc_gets + 1
         /\ lc_last' = [op |-> "get", key |-> hostname, ips |-> g.ips, t |-> lc_now,
                        t2 |-> t2,
                        ret |-> IF g.fault THEN "fault" ELSE IF g.hit THEN "hit" ELSE "miss",
                        put |-> IF lc_last.op = "update" /\ lc_last.key = hostname
                                THEN <<lc_last.ips>> ELSE <<>>]
  /\ lc_now' = t2
  /\ UNCHANGED <<rvars, ovars, svars>>

\* update(hostname, ips).
CacheUpdate(hostname, ips) ==
  /\ ~Faulted
  /\ lc' = LRUUpdate(lc, hostname, ips, lc_now)
  /\ lc_last' = [op |-> "update", key |-> hostname, ips |-> ips, t |-> lc_now,
                 t2 |-> lc_now, ret |-> "void", put |-> <<>>]
  /\ UNCHANGED <<rvars, ovars, svars, lc_now, lc_gets>>

\* remove(hostname).
CacheRemove(hostname) ==
  /\ ~Faulted
  /\ lc' = LRURemove(lc, hostname)
  /\ lc_last' = [op |-> "remove", key |-> hostname, ips |-> <<>>, t |-> lc_now,
                 t2 |-> lc_now, ret |-> "void", put |-> <<>>]
  /\ UNCHANGED <<rvars, ovars, svars, lc_now, lc_gets>>

\* clear().
CacheClear ==
  /\ ~Faulted
  /\ lc' = LRUClear(lc)
  /\ lc_last' = [op |-> "clear", key |-> EmptyName, ips |-> <<>>, t |-> lc_now,
                 t2 |-> lc_now, ret |-> "void", put |-> <<>>]
  /\ UNCHANGED <<rvars, ovars, svars, lc_now, lc_gets>>

\* Time passes between two calls.
CacheTick ==
  /\ lc_now < MaxCacheTime
  /\ lc_now' = lc_now + 1
  /\ UNCHANGED <<rvars, ovars, svars, lc, lc_gets, lc_last>>

NextCache ==
  \/ \E k \in CacheKeys, t2 \in 0..MaxCacheTime, ub \in UseAfterEraseOutcomes :
       CacheGet(k, t2, ub)
  \/ \E k \in CacheKeys, v \in CacheValues : CacheUpdate(k, v)
  \/ \E k \in CacheKeys : CacheRemove(k)
  \/ CacheClear
  \/ CacheTick

SpecCache == InitCache /\ [][NextCache]_vars

\* ------------------------------------------------------- server selection
\* CaresQueryStrategy::selectServer and the two places that change
\* server_health_: handleResult (failure) and updateServerMetrics (success).
\* An address is a text; "" (no server) is <<>>.
Server(address, weight, enabled) ==
  [address |-> address, weight |-> weight, enabled |-> enabled]

\* ServerHealth{}: the member initialisers.
NewServerHealth == [healthy |-> TRUE, avg_latency |-> 0, error_count |-> 0]

\* The positions in config_.servers that pass selectServer's filter.
Eligible(cfg, health) ==
  {i \in DOMAIN cfg.servers :
     /\ cfg.servers[i].enabled
     /\ cfg.servers[i].address \in DOMAIN health
     /\ health[cfg.servers[i].address].healthy}

\* score(i) > score(j), score = weight / (1.0 + avg_latency.count()); the
\* quotients are compared by cross-multiplication (both divisors are >= 1).
ScoreGreater(cfg, health, i, j) ==
  cfg.servers[i].weight * (1 + health[cfg.servers[j].address].avg_latency)
    > cfg.servers[j].weight * (1 + health[cfg.servers[i].address].avg_latency)

\* The positions std::ranges::sort may leave at the front of
\* available_servers: those no other eligible server outscores.  The sort is
\* not stable, so the order of servers of equal score is unspecified
\* (libstdc++ keeps the insertion order up to 16 elements and does not keep
\* it beyond: of 17 servers of equal score it puts the 9th first).
SortFronts(cfg, health) ==
  {i \in Eligible(cfg, health) :
     \A j \in Eligible(cfg, health) : ~ScoreGreater(cfg, health, j, i)}

\* selectServer whose recovery path leaves server_health_ as it is.
selectServer_NoReset(cfg, health, front) ==
  IF cfg.servers = <<>> THEN [ret |-> <<>>, health |-> health]
  ELSE IF Eligible(cfg, health) = {}
  THEN [ret |-> cfg.servers[1].address, health |-> health]
  ELSE [ret |-> cfg.servers[front].address, health |-> health]

\* CaresQueryStrategy::selectServer: [ret, health]; front is the position the
\* sort leaves first.
selectServer(cfg, health, front) ==
  IF cfg.servers = <<>> THEN [ret |-> <<>>, health |-> health]
  ELSE IF Eligible(cfg, health) = {}
  THEN [ret |-> cfg.servers[1].address,
        health |-> [a \in DOMAIN health |->
                      [health[a] EXCEPT !.healthy = TRUE, !.error_count = 0]]]
  ELSE [ret |-> cfg.servers[front].address, health |-> health]

\* The values `front` can take in a call of selectServer.
Fronts(cfg, health) ==
  IF Eligible(cfg, health) = {} THEN {0} ELSE SortFronts(cfg, health)

\* server_health_[server]: operator[] inserts ServerHealth{} for a new key.
HealthAt(health, server) ==
  IF server \in DOMAIN health THEN health[server] ELSE NewServerHealth

RECURSIVE Sum(_)
Sum(q) == IF q = <<>> THEN 0 ELSE Head(q) + Sum(Tail(q))

\* updateServerMetrics' history.push(latency) and the pop beyond
\* MAX_LATENCY_SAMPLES.
PushSample(history, latency) ==
  IF Len(history) + 1 > MAX_LATENCY_SAMPLES THEN Tail(Append(history, latency))
  ELSE Append(history, latency)

HistoryAt(histories, server) ==
  IF server \in DOMAIN histories THEN histories[server] ELSE <<>>

\* Latencies of successful attempts, in ms.
Latencies == {0, 1}

\* Configurations of the strategy: no server; two servers of equal weight;
\* a heavier second server; a disabled first server; three servers, the
\* first and the third of equal weight.
SelectConfigs ==
  {[servers |-> servers, server_error_threshold |-> threshold] :
     servers \in {<<>>,
                  <<Server(<<"U1">>, 1, TRUE), Server(<<"U2">>, 1, TRUE)>>,
                  <<Server(<<"U1">>, 1, TRUE), Server(<<"U2">>, 2, TRUE)>>,
                  <<Server(<<"U1">>, 1, FALSE), Server(<<"U2">>, 1, TRUE)>>,
                  <<Server(<<"U1">>, 2, TRUE), Server(<<"U2">>, 1, TRUE),
                    Server(<<"U3">>, 2, TRUE)>>},
     threshold \in {0, 1}}

\* CaresQueryStrategy::initialize: an entry for every enabled server.
InitialHealth(cfg) ==
  [a \in {cfg.servers[i].address : i \in {j \in DOMAIN cfg.servers : cfg.servers[j].enabled}}
     |-> NewServerHealth]

InitSelect ==
  /\ ResolverAtRest
  /\ CacheAtRest
  /\ OthersAtRest
  /\ sv_config \in SelectConfigs
  /\ server_health = InitialHealth(sv_config)
  /\ latency_history = <<>>
  /\ sv_pending = <<>>
  /\ sv_last = NoSelect

\* The sequence q without its i-th element.
Without(q, i) == SubSeq(q, 1, i - 1) \o SubSeq(q, i + 1, Len(q))

\* query(): std::string selected_server = selectServer(); the attempt is
\* dispatched unless no server is configured.
SelectQuery(front) ==
  /\ front \in Fronts(sv_config, server_health)
  /\ Len(sv_pending) < MaxPending
  /\ LET r == selectServer(sv_config, server_health, front)
     IN  /\ server_health' = r.health
         /\ sv_pending' = IF r.ret = <<>> THEN sv_pending ELSE Append(sv_pending, r.ret)
         /\ sv_last' = [made |-> TRUE, parity |-> 1 - sv_last.parity,
                        eligible |-> Eligible(sv_config, server_health), ret |-> r.ret]
  /\ UNCHANGED <<rvars, ovars, cvars, sv_config, latency_history>>

\* handleResult of pending attempt i with status != ARES_SUCCESS:
\* selectServer(), then the error_count of the server it returns.
AttemptFails(i, front) ==
  /\ i \in DOMAIN sv_pending
  /\ sv_pending' = Without(sv_pending, i)
  /\ sv_config.servers # <<>>
  /\ front \in Fronts(sv_config, server_health)
  /\ LET r == selectServer(sv_config, server_health, front)
         h == HealthAt(r.health, r.ret)
         count == h.error_count + 1
     IN  /\ count <= MaxErrors
         /\ server_health' =
              MapPut(r.health, r.ret,
                     [h EXCEPT !.error_count = count,
                               !.healthy = IF count > sv_config.server_error_threshold
                                           THEN FALSE ELSE @])
  /\ UNCHANGED <<rvars, ovars, cvars, sv_config, latency_history, sv_last>>

\* handleResult of pending attempt i with ARES_SUCCESS:
\* updateServerMetrics(selectServer(), latency).
AttemptSucceeds(i, latency, front) ==
  /\ i \in DOMAIN sv_pending
  /\ sv_pending' = Without(sv_pending, i)
  /\ sv_config.servers # <<>>
  /\ front \in Fronts(sv_config, server_health)
  /\ LET r == selectServer(sv_config, server_health, front)
         history == PushSample(HistoryAt(latency_history, r.ret), latency)
     IN  /\ Len(history) <= MaxSamples
         /\ latency_history' = MapPut(latency_history, r.ret, history)
         /\ server_health' =
              MapPut(r.health, r.ret,
                     [HealthAt(r.health, r.ret) EXCEPT
                        !.avg_latency = Sum(history) \div Len(history),
                        !.error_count = 0,
                        !.healthy = TRUE])
  /\ UNCHANGED <<rvars, ovars, cvars, sv_config, sv_last>>

NextSelect ==
  \/ \E front \in 0..3 : SelectQuery(front)
  \/ \E i \in 1..MaxPending, front \in 0..3 : AttemptFails(i, front)
  \/ \E i \in 1..MaxPending, latency \in Latencies, front \in 0..3 :
       AttemptSucceeds(i, latency, front)

SpecSelect == InitSelect /\ [][NextSelect]_vars

\* ------------------------------------------------------------------- claims
Made == 1..nresolves

Last(s) == s[Len(s)]

\* The pump thread sleeps in handleQueryResult, waiting out q's retry delay.
Backoff(q) == pump # <<>> /\ pump[1].state = "sleeping" /\ pump[1].q = q

\* The attempt of call q is pending on the channel, its retry is waiting out
\* the backoff delay, or the thread serving it has not returned.
InFlight(q) ==
  \/ \E i \in DOMAIN s_active_contexts :
       s_active_contexts[i].q = q /\ s_active_contexts[i].id \in channel
  \/ Backoff(q)
  \/ q \in stuck

\* C1: for every resolve(hostname, cb) call, cb is invoked exactly once:
\* never twice, and once the call is no longer in flight, once.
C1_CallbackExactlyOnce ==
  \A q \in Made :
    /\ Len(delivered[q]) <= 1
    /\ ~InFlight(q) => Len(delivered[q]) = 1

\* C2: after shutdown(), every resolve that was in flight when it ran has had
\* its callback invoked with Cancelled, under no other status, and the
\* cancellation was not retried.
C2_ShutdownDeliversCancelled ==
  sdphase = "done" =>
    \A q \in cancelled :
      /\ delivered[q] # <<>>
      /\ \A i \in DOMAIN delivered[q] : delivered[q][i].status = "ECANCELLED"
      /\ \A i \in DOMAIN handled[q] : handled[q][i][2] = "ECANCELLED" => i = Len(handled[q])

\* Resolutions admitted by resolve() whose callback has not run yet.
Admitted == {q \in Made : calls[q].admitted /\ delivered[q] = <<>>}

\* C3: the number of admitted, not yet completed resolutions never exceeds
\* max_concurrent_queries.
C3_AdmissionControl == Cardinality(Admitted) <= config.max_concurrent_queries

\* Re-dispatches made or scheduled: query() calls after the first of every
\* call, and the one a sleeping handleQueryResult is about to make.
Redispatches ==
  LET n[q \in 0..MaxResolves] ==
        IF q = 0 THEN 0 ELSE n[q - 1] + (IF dispatches[q] > 0 THEN dispatches[q] - 1 ELSE 0)
  IN  n[MaxResolves] + (IF \E q \in Calls : Backoff(q) THEN 1 ELSE 0)

\* C4: a resolve makes at most max_attempts + 1 strategy dispatches, is
\* re-dispatched only after a retryable failure with retry_count below
\* max_attempts, and total_retries counts exactly the re-dispatches.
C4_RetryLoop ==
  /\ \A q \in Made : dispatches[q] <= config.retry.max_attempts + 1
  /\ \A q \in Made : \A i \in DOMAIN handled[q] :
       i < Len(handled[q]) =>
         /\ handled[q][i][2] \notin {"SUCCESS", "ENODATA", "ENOTFOUND"}
         /\ handled[q][i][1] < config.retry.max_attempts
         /\ handled[q][i + 1][1] = handled[q][i][1] + 1
  /\ metrics.total_retries = Redispatches

\* C5: a strategy result NotFound or NoData is delivered to the user callback
\* by the handleQueryResult that receives it: no retry is recorded, no
\* dispatch is made and no backoff is entered.
C5_NotFoundNotRetried ==
  [][\A q \in Calls :
       (/\ Len(handled'[q]) = Len(handled[q]) + 1
        /\ Last(handled'[q])[2] \in {"ENOTFOUND", "ENODATA"})
       => /\ Len(delivered'[q]) = Len(delivered[q]) + 1
          /\ Last(delivered'[q]).status = Last(handled'[q])[2]
          /\ metrics'.total_retries = metrics.total_retries
          /\ dispatches' = dispatches
          /\ pump' = <<>>]_vars

\* base * m as a mathematical value: the high limb is not reduced.
ExactMul(a, m) == <<a[1] * m + ((a[2] * m) \div Limb), (a[2] * m) % Limb>>

\* C6: under a configuration validateConfig accepts, the delay a failed
\* attempt with retry_count = r waits is min(base_delay_ms * 2^r, max_delay_ms)
\* as a mathematical value, hence within base_delay_ms .. max_delay_ms.
C6_BackoffDelay ==
  ((\E q \in Calls : Backoff(q)) /\ validateConfig(config)) =>
    /\ pump[1].delay =
         U32Min(ExactMul(config.retry.base_delay_ms, Pow2(pump[1].retry_count - 1)),
                config.retry.max_delay_ms)
    /\ ~U32Less(pump[1].delay, config.retry.base_delay_ms)
    /\ ~U32Less(config.retry.max_delay_ms, pump[1].delay)

\* C7: while a resolve waits out its retry delay, the pump thread is free to
\* deliver the completions of the other pending lookups.
C7_BackoffNonBlocking ==
  \A q \in Made :
    Backoff(q) =>
      \A i \in DOMAIN s_active_contexts :
        (initialized /\ s_active_contexts[i].id \in channel) =>
          \A o \in Outcomes :
            ENABLED (\E ub \in RelockOutcomes : HandleCompletion(s_active_contexts[i], o, ub))

\* What resolve() leaves of the state when it only calls back with `status`.
OnlyCallsBack(q, status) ==
  /\ delivered' = [delivered EXCEPT ![q] = <<Result(status, calls'[q].hostname, <<>>, FALSE)>>]
  /\ log' = Append(log, [type |-> "user_callback", call |-> q,
                         result |-> Result(status, calls'[q].hostname, <<>>, FALSE)])
  /\ UNCHANGED <<cache, metrics, m_stale, m_mutex, stuck, dispatches, handled,
                 s_active_contexts, channel, pump>>

\* C8 as stated: every resolve() of a hostname that fails validation calls
\* back BadName and changes nothing else.
C8_BadNameAlways ==
  [][(nresolves' = nresolves + 1 /\ ~isValidHostname(calls'[nresolves'].hostname))
       => OnlyCallsBack(nresolves', "EBADNAME")]_vars

\* C8, amended: on an initialised resolver, resolve() of a hostname that fails
\* validation calls back BadName and changes nothing else: no query_started,
\* no cache lookup, no metrics update, no dispatch.
C8_BadNameFrame ==
  [][(nresolves' = nresolves + 1 /\ initialized
        /\ ~isValidHostname(calls'[nresolves'].hostname))
       => OnlyCallsBack(nresolves', "EBADNAME")]_vars

C8_Witness ==
  \E q \in Made :
    /\ calls[q].hostname = <<"-", "a">>
    /\ delivered[q] = <<Result("EBADNAME", <<"-", "a">>, <<>>, FALSE)>>
    /\ init_ret = "true"

\* Split at every dot: a leading, trailing or doubled dot gives an empty label.
RECURSIVE SplitDots(_)
SplitDots(s) ==
  IF FirstDot(s) = 0 THEN <<s>>
  ELSE <<SubSeq(s, 1, FirstDot(s) - 1)>> \o SplitDots(SubSeq(s, FirstDot(s) + 1, Len(s)))

WellFormedLabel(l) ==
  /\ Len(l) >= 1
  /\ Len(l) <= 63
  /\ isalnum(l[1])
  /\ isalnum(l[Len(l)])
  /\ \A i \in DOMAIN l : isalnum(l[i]) \/ l[i] = "-"

\* C9: validation accepts a text iff it is nonempty, at most 253 octets, and
\* every dot-separated label, empty ones included, is well formed.
C9_ValidationIff ==
  vh_result # "unchecked" =>
    (vh_result = "valid" <=>
       /\ vh_input # <<>>
       /\ Len(vh_input) <= 253
       /\ \A i \in DOMAIN SplitDots(vh_input) : WellFormedLabel(SplitDots(vh_input)[i]))

\* C10: an admitted resolve() whose cache probe hits (the hostname is cached
\* and not expired) makes no dispatch, calls back Success, from_cache, with
\* the cached addresses, and adds 1 to cache_hits only; on a miss it adds 1
\* to cache_misses only.
C10_CacheHitPath ==
  [][(nresolves' = nresolves + 1 /\ calls'[nresolves'].admitted) =>
       LET q == nresolves'
           h == calls'[q].hostname
       IN  IF h \in DOMAIN cache.cache_ /\ now < cache.cache_[h].expire_time
           THEN /\ dispatches'[q] = 0
                /\ delivered'[q] = <<Result("SUCCESS", h, cache.cache_[h].ips, TRUE)>>
                /\ UNCHANGED <<s_active_contexts, channel>>
                /\ metrics'.cache_hits = metrics.cache_hits + 1
                /\ metrics'.cache_misses = metrics.cache_misses
           ELSE /\ metrics'.cache_misses = metrics.cache_misses + 1
                /\ metrics'.cache_hits = metrics.cache_hits
                /\ \A i \in DOMAIN delivered'[q] : ~delivered'[q][i].from_cache]_vars

\* The entries the step appends to log.
Appended == SubSeq(log', Len(log) + 1, Len(log'))

AddressChanges(l) == SelectSeq(l, LAMBDA e : e.type = "address_changed")

AddressChanged(hostname, old, new) ==
  [type |-> "address_changed", hostname |-> hostname, old_addresses |-> old,
   new_addresses |-> new]

\* C11: when the cache held addresses for the hostname at resolve(hostname)
\* and the strategy answers that call with a different, non-empty list, the
\* handling of the answer publishes exactly one address_changed, with old =
\* the list the cache held and new = the strategy's list.
C11_AddressChangeDetected ==
  [][\A q \in Calls :
       (/\ Len(handled'[q]) = Len(handled[q]) + 1
        /\ Last(handled'[q])[2] = "SUCCESS"
        /\ Len(delivered'[q]) = Len(delivered[q]) + 1
        /\ calls[q].cached # <<>>
        /\ Last(delivered'[q]).ip_addresses \notin {<<>>, calls[q].cached})
       => AddressChanges(Appended) =
            <<AddressChanged(calls[q].hostname, calls[q].cached,
                             Last(delivered'[q]).ip_addresses)>>]_vars

\* The addresses of a cache entry that has not expired at time t; <<>> if none.
Live(c, hostname, t) ==
  IF hostname \in DOMAIN c.cache_ /\ t < c.cache_[hostname].expire_time
  THEN c.cache_[hostname].ips
  ELSE <<>>

\* C12: a handleQueryResult that delivers Success does, in this order: the
\* cache update (when the new list is non-empty), the address_changed
\* publication (exactly when the list read from the cache differs from the
\* new, non-empty list), the user callback, the query_completed publication.
C12_SuccessOrdering ==
  [][\A q \in Calls :
       (/\ Len(delivered'[q]) = Len(delivered[q]) + 1
        /\ Last(delivered'[q]).status = "SUCCESS"
        /\ ~Last(delivered'[q]).from_cache)
       => LET res == Last(delivered'[q])
              old == Live(cache, res.hostname, now)
              new == res.ip_addresses
          IN  /\ Appended =
                   (IF new # <<>>
                    THEN <<[type |-> "cache_updated", hostname |-> res.hostname, ips |-> new]>>
                    ELSE <<>>)
                   \o (IF new # <<>> /\ old # new
                       THEN <<AddressChanged(res.hostname, old, new)>>
                       ELSE <<>>)
                   \o <<[type |-> "user_callback", call |-> q, result |-> res],
                        [type |-> "query_completed", hostname |-> res.hostname,
                         ips |-> new, success |-> TRUE]>>
              /\ new # <<>> => Stored(cache', res.hostname) = new]_vars

C12_Witness ==
  \E i \in DOMAIN log :
    /\ i + 2 <= Len(log)
    /\ log[i].type = "address_changed"
    /\ log[i].old_addresses # <<>>
    /\ log[i + 1].type = "user_callback"
    /\ log[i + 2].type = "query_completed"

\* C13: size() never exceeds max_size, whatever max_size is and whatever
\* calls were made.
C13_SizeBounded == LRUSize(lc) <= lc.max_size_

\* The step is a call of `op` on the LRUCache under test.
Called(op) == lc_last' # lc_last /\ lc_last'.op = op

\* C14: update(k, v) immediately followed by get(k), the entry not having
\* expired when get reads the clock, returns true with exactly v, whether k
\* was new or present and whatever else the cache holds.
C14_UpdateGetRoundTrip ==
  [][(/\ Called("get")
      /\ lc_last.op = "update"
      /\ lc_last'.key = lc_last.key
      /\ lc_last'.t2 < lc_last.t + lc.ttl_)
     => /\ lc_last'.ret = "hit"
        /\ lc_last'.ips = lc_last.ips]_vars

C14_Witness ==
  /\ lc_last.op = "get"
  /\ lc_last.put = <<<<"2.2.2.2", "1.1.1.1">>>>
  /\ lc_last.ret = "hit"
  /\ lc_last.t2 > 0
  /\ LRUSize(lc) = 2

\* C15: after a get that hits, and after an update of a key already
\* present, that key is at the front of the LRU sequence and the other keys
\* that remain keep their relative order.
C15_Recency ==
  [][((Called("get") /\ lc_last'.ret = "hit")
      \/ (Called("update") /\ lc_last'.key \in DOMAIN lc.cache_))
     => /\ lc'.lru_list_ # <<>>
        /\ lc'.lru_list_[1] = lc_last'.key
        /\ Tail(lc'.lru_list_) =
             SelectSeq(lc.lru_list_,
                       LAMBDA e : e # lc_last'.key /\ e \in DOMAIN lc'.cache_)]_vars

C15_Witness ==
  /\ lc_last.op = "get"
  /\ lc_last.ret = "hit"
  /\ Len(lc.lru_list_) = 2
  /\ lc.lru_list_[1] = lc_last.key
  /\ lc.cache_[lc_last.key].expire_time # lc.cache_[lc.lru_list_[2]].expire_time
  /\ lc.hits_ > 0

\* C16: hits + misses equals the number of get calls made, and hit_rate()
\* is hits / (hits + misses), within [0, 1], and 0 when no get was made.
C16_HitMissAccounting ==
  /\ lc.hits_ + lc.misses_ = lc_gets
  /\ LRUHitRate(lc).num >= 0
  /\ LRUHitRate(lc).num <= LRUHitRate(lc).den
  /\ LRUHitRate(lc).num * (lc.hits_ + lc.misses_) = lc.hits_ * LRUHitRate(lc).den
  /\ lc_gets = 0 => LRUHitRate(lc).num = 0

\* C17: get(k) does not return a hit for an entry whose expire_time <= the
\* time get reads; a get of such an entry returns a miss and counts it; and
\* after a get no entry with expire_time <= the time of its sweep remains.
C17_Expiry ==
  [][Called("get") =>
       LET k == lc_last'.key
           expired == k \in DOMAIN lc.cache_ /\ lc.cache_[k].expire_time <= lc_last'.t2
       IN  /\ expired => /\ lc_last'.ret = "miss"
                         /\ lc'.misses_ = lc.misses_ + 1
                         /\ lc'.hits_ = lc.hits_
           /\ \A j \in DOMAIN lc'.cache_ : lc'.cache_[j].expire_time > lc_last'.t]_vars

\* C18: update(k, v) of a key not present while size == max_size removes
\* exactly one entry, the one at the LRU tail, keeps every other entry as it
\* was and inserts k at the MRU front.
C18_EvictsLruTail ==
  [][(/\ Called("update")
      /\ lc_last'.key \notin DOMAIN lc.cache_
      /\ LRUSize(lc) = lc.max_size_)
     => /\ lc.lru_list_ # <<>>
        /\ DOMAIN lc'.cache_ =
             (DOMAIN lc.cache_ \ {Last(lc.lru_list_)}) \cup {lc_last'.key}
        /\ Cardinality(DOMAIN lc.cache_ \ DOMAIN lc'.cache_) = 1
        /\ \A j \in DOMAIN lc.cache_ \ {Last(lc.lru_list_)} : lc'.cache_[j] = lc.cache_[j]
        /\ lc'.lru_list_ = <<lc_last'.key>> \o SubSeq(lc.lru_list_, 1, Len(lc.lru_list_) - 1)
        /\ lc'.cache_[lc_last'.key].ips = lc_last'.ips]_vars

\* The step is a call of selectServer() by query().
Selected == sv_last'.parity # sv_last.parity

\* The eligible servers no eligible server outscores.
Best == {i \in Eligible(sv_config, server_health) :
           \A j \in Eligible(sv_config, server_health) :
             ~ScoreGreater(sv_config, server_health, j, i)}

\* C19: when some server is enabled and healthy, selectServer returns the
\* eligible server of greatest score weight / (1 + avg_latency_ms), and among
\* several of that score the one configured first.
C19_BestScoreFirstConfigured ==
  [][(Selected /\ Eligible(sv_config, server_health) # {})
     => sv_last'.ret =
          sv_config.servers[CHOOSE i \in Best : \A j \in Best : i <= j].address]_vars

\* C20: selectServer returns a server iff at least one is configured; when
\* servers are configured and none is enabled and healthy, it returns the
\* first configured server and leaves every server healthy with
\* error_count 0, the latencies and the set of tracked servers unchanged.
C20_Recovery ==
  [][Selected =>
       /\ sv_last'.ret # <<>> <=> sv_config.servers # <<>>
       /\ (sv_config.servers # <<>> /\ Eligible(sv_config, server_health) = {})
          => /\ sv_last'.ret = sv_config.servers[1].address
             /\ DOMAIN server_health' = DOMAIN server_health
             /\ \A a \in DOMAIN server_health :
                  server_health'[a] = [healthy |-> TRUE, error_count |-> 0,
                                       avg_latency |-> server_health[a].avg_latency]
             /\ \A i \in DOMAIN sv_config.servers :
                  /\ HealthAt(server_health', sv_config.servers[i].address).healthy
                  /\ HealthAt(server_health', sv_config.servers[i].address).error_count = 0]_vars

C20_Witness ==
  /\ sv_last.made
  /\ sv_last.eligible = {}
  /\ sv_config.server_error_threshold = 1
  /\ Len(sv_config.servers) = 2
  /\ \A i \in DOMAIN sv_config.servers : sv_config.servers[i].enabled
  /\ sv_last.ret = <<"U1">>
  /\ \A a \in DOMAIN server_health :
       server_health[a].healthy /\ server_health[a].error_count = 0

\* ------------------------------------------------------------ ConfigManager
\* One ConfigManager, called from one thread at a time. A change handler
\* is "plain" when it does not call back into the ConfigManager and
\* "reads_config" when it calls getConfig().
ChangeHandlers == {"plain", "reads_config"}

\* notifyConfigChange(): runs changeHandler_ when one is registered. locked:
\* the calling thread owns mutex_. The handler "completed", "threw" (caught
\* by notifyConfigChange) or "hangs"; "none" when no handler is registered.
NotifyConfigChange(m, locked, ub) ==
  IF m.changeHandler_ = "none" THEN "none"
  ELSE IF m.changeHandler_ = "plain" \/ ~locked THEN "completed"
  ELSE IF ub = "deadlock" THEN "hangs"
  ELSE IF ub = "throw" THEN "threw"
  ELSE "completed"

\* The call made is recorded; a call that finds mutex_ held by a thread that
\* hangs waits for ever.
ConfigCall(op, c, handler, ret) ==
  [op |-> op, parity |-> 1 - cm_last.parity, config |-> c, handler |-> handler,
   ret |-> ret]

\* ConfigManager::registerConfigChangeHandler.
CMRegister(h) ==
  /\ IF cm.mutex_ = "held"
     THEN /\ cm_last' = ConfigCall("register", <<>>, "none", "blocked")
          /\ UNCHANGED cm
     ELSE /\ cm' = [cm EXCEPT !.changeHandler_ = h]
          /\ cm_last' = ConfigCall("register", <<>>, "none", "returned")
  /\ UNCHANGED <<rvars, cvars, svars, besides_cm>>

\* ConfigManager::getConfig.
CMGetConfig ==
  /\ cm_last' = IF cm.mutex_ = "held"
                THEN ConfigCall("getConfig", <<>>, "none", "blocked")
                ELSE ConfigCall("getConfig", cm.config_, "none", "returned")
  /\ UNCHANGED <<rvars, cvars, svars, besides_cm, cm>>

\* ConfigManager::updateConfig: lock_guard, config_ = config,
\* notifyConfigChange() with the mutex held.
CMUpdateConfig(c, ub) ==
  /\ IF cm.mutex_ = "held"
     THEN /\ cm_last' = ConfigCall("updateConfig", c, "none", "blocked")
          /\ UNCHANGED cm
     ELSE LET m == [cm EXCEPT !.config_ = c]
              h == NotifyConfigChange(m, TRUE, ub)
          IN  /\ cm' = [m EXCEPT !.mutex_ = IF h = "hangs" THEN "held" ELSE "free"]
              /\ cm_last' = ConfigCall("updateConfig", c, h,
                                       IF h = "hangs" THEN "blocked" ELSE "returned")
  /\ UNCHANGED <<rvars, cvars, svars, besides_cm>>

\* ConfigManager::checkForConfigChanges when the file has changed and holds
\* c: loadFromFile stores c under the mutex and releases it, then
\* notifyConfigChange() runs without the mutex.
CMCheckForConfigChanges(c, ub) ==
  /\ IF cm.mutex_ = "held"
     THEN /\ cm_last' = ConfigCall("reload", c, "none", "blocked")
          /\ UNCHANGED cm
     ELSE LET m == [cm EXCEPT !.config_ = c]
          IN  /\ cm' = m
              /\ cm_last' = ConfigCall("reload", c, NotifyConfigChange(m, FALSE, ub),
                                       "returned")
  /\ UNCHANGED <<rvars, cvars, svars, besides_cm>>

InitConfigManager ==
  /\ ResolverAtRest
  /\ CacheAtRest
  /\ SelectAtRest
  /\ PublisherAtRest
  /\ StatsAtRest
  /\ MetricsAtRest
  /\ StrategyAtRest
  /\ LocksAtRest
  /\ DurationsAtRest
  /\ StartupAtRest
  /\ cm \in {NewConfigManager(c) : c \in Configs}
  /\ cm_last = NoConfigCall

NextConfigManager ==
  \/ \E h \in ChangeHandlers : CMRegister(h)
  \/ CMGetConfig
  \/ \E c \in Configs, ub \in RelockOutcomes : CMUpdateConfig(c, ub)
  \/ \E c \in Configs, ub \in RelockOutcomes : CMCheckForConfigChanges(c, ub)

SpecConfigManager == InitConfigManager /\ [][NextConfigManager]_vars

\* ----------------------------------------------------------- EventPublisher
\* What a subscribed handler does when invoked: it returns, it throws an
\* exception derived from std::exception, or it throws any other object.
\* A subscriber returns, throws a std::exception, throws something else, or
\* ("resolves") calls resolve() on the resolver that publishes to this
\* publisher: resolve() calls publishQueryStarted, which locks mutex_.
Handlers == {"returns", "throws_std", "throws_other", "resolves"}

\* What publishQueryStarted does when it is entered from inside a handler and
\* the second lock of mutex_ is let through: it runs the query_started
\* subscribers; one that throws something else than a std::exception ends
\* it; one that resolves enters publishQueryStarted again, without end.
RECURSIVE NestedQueryStarted(_)
NestedQueryStarted(handlers) ==
  IF handlers = <<>> THEN "returns"
  ELSE IF Head(handlers) = "throws_other" THEN "throws_other"
  ELSE IF Head(handlers) = "resolves" THEN "never"
  ELSE NestedQueryStarted(Tail(handlers))

\* What a "resolves" subscriber does, called with mutex_ held: the lock in
\* publishQueryStarted is a second lock of a std::mutex by its owner.
\* "deadlock": the handler never returns; "throw": std::system_error leaves
\* resolve() and the handler; "relock": the nested publish runs.
Reentry(started, ub) ==
  IF ub = "deadlock" THEN "never"
  ELSE IF ub = "throw" THEN "throws_std"
  ELSE NestedQueryStarted(started)

\* The loop of publish*: try { handler(...) } catch (const std::exception &) {}.
\* i: the next subscriber; invoked: the invocation counts so far. An
\* exception that is not a std::exception leaves the loop and the call.
RECURSIVE PublishLoop(_, _, _, _, _)
PublishLoop(handlers, i, invoked, started, ub) ==
  IF i > Len(handlers) THEN [invoked |-> invoked, propagated |-> FALSE, returned |-> TRUE]
  ELSE LET inv == [invoked EXCEPT ![i] = @ + 1]
           does == IF handlers[i] = "resolves" THEN Reentry(started, ub) ELSE handlers[i]
       IN  IF does = "throws_other"
           THEN [invoked |-> inv, propagated |-> TRUE, returned |-> TRUE]
           ELSE IF does = "never"
           THEN [invoked |-> inv, propagated |-> FALSE, returned |-> FALSE]
           ELSE PublishLoop(handlers, i + 1, inv, started, ub)

\* EventPublisher::subscribeAddressChange / subscribeQueryStart /
\* subscribeQueryComplete: push_back.
Subscribe(e, h) ==
  /\ ep_last.returned
  /\ Len(ep[e]) < MaxSubscribers
  /\ ep' = [ep EXCEPT ![e] = Append(@, h)]
  /\ UNCHANGED <<rvars, cvars, svars, besides_ep, ep_last>>

\* EventPublisher::publishAddressChanged / publishQueryStarted /
\* publishQueryCompleted.
Publish(e, ub) ==
  /\ ep_last.returned
  /\ LET r == PublishLoop(ep[e], 1, [i \in DOMAIN ep[e] |-> 0], ep["query_started"], ub)
     IN  ep_last' = [made |-> TRUE, parity |-> 1 - ep_last.parity, event |-> e,
                     invoked |-> r.invoked, propagated |-> r.propagated,
                     returned |-> r.returned]
  /\ UNCHANGED <<rvars, cvars, svars, besides_ep, ep>>

\* EventPublisher::unsubscribeAll.
UnsubscribeAll ==
  /\ ep_last.returned
  /\ ep' = [e \in Events |-> <<>>]
  /\ UNCHANGED <<rvars, cvars, svars, besides_ep, ep_last>>

InitPublisher ==
  /\ ResolverAtRest
  /\ CacheAtRest
  /\ SelectAtRest
  /\ ConfigManagerAtRest
  /\ PublisherAtRest
  /\ StatsAtRest
  /\ MetricsAtRest
  /\ StrategyAtRest
  /\ LocksAtRest
  /\ DurationsAtRest
  /\ StartupAtRest

NextPublisher ==
  \/ \E e \in Events, h \in Handlers : Subscribe(e, h)
  \/ \E e \in Events, ub \in RelockOutcomes : Publish(e, ub)
  \/ UnsubscribeAll

SpecPublisher == InitPublisher /\ [][NextPublisher]_vars

\* ------------------------------------------------------------ RunningStats
\* One RunningStats fed doubles: 1, 3, 0.5, 2^54 and -2^54.
StatsValues ==
  {Double(FALSE, {0}), Double(FALSE, {0, 1}), Double(FALSE, {-1}), Double(FALSE, {54}),
   Double(TRUE, {54})}

StatsUpdate(value) ==
  /\ Len(rs_in) < MaxStatsLen
  /\ rs' = RSUpdate(rs, value)
  /\ rs_in' = Append(rs_in, value)
  /\ UNCHANGED <<rvars, cvars, svars, besides_rs>>

\* RunningStats::reset.
StatsReset ==
  /\ rs' = NewRunningStats
  /\ rs_in' = <<>>
  /\ UNCHANGED <<rvars, cvars, svars, besides_rs>>

InitStats ==
  /\ ResolverAtRest
  /\ CacheAtRest
  /\ SelectAtRest
  /\ ConfigManagerAtRest
  /\ PublisherAtRest
  /\ StatsAtRest
  /\ MetricsAtRest
  /\ StrategyAtRest
  /\ LocksAtRest
  /\ DurationsAtRest
  /\ StartupAtRest

NextStats ==
  \/ \E value \in StatsValues : StatsUpdate(value)
  \/ StatsReset

SpecStats == InitStats /\ [][NextStats]_vars

\* ------------------------------------------------- BasicMetrics under threads
\* One BasicMetrics called by the threads of MetricsThreads. A call that
\* finds mutex_ taken waits; the steps a thread takes while it owns mutex_
\* are separate actions.
CallsStarted == bm_calls.started["query_ok"] + bm_calls.started["query_failed"]
                + bm_calls.started["cache_hit"] + bm_calls.started["cache_miss"]
                + bm_calls.started["retry"]

\* std::lock_guard<std::mutex> lock(mutex_) can be taken.
LockFree_Always(m) == TRUE

LockFree(m) == m.mutex_ = 0

Started(kind) == [bm_calls EXCEPT !.started[kind] = @ + 1]

Returned(kind) == [bm_calls EXCEPT !.returned[kind] = @ + 1]

\* recordQuery up to ++total_queries_.
BeginRecordQuery(t, success) ==
  /\ bm_threads[t].pc = "idle"
  /\ CallsStarted < MaxMetricsCalls
  /\ LockFree(bm)
  /\ bm' = [bm EXCEPT !.mutex_ = t, !.metrics.total_queries = @ + 1]
  /\ bm_threads' = [bm_threads EXCEPT ![t].pc = "counted_total",
                       ![t].kind = IF success THEN "query_ok" ELSE "query_failed"]
  /\ bm_calls' = Started(IF success THEN "query_ok" ELSE "query_failed")
  /\ UNCHANGED <<rvars, cvars, svars, besides_bm>>

\* recordQuery: ++successful_queries_ or ++failed_queries_.
CountOutcome(t) ==
  /\ bm_threads[t].pc = "counted_total"
  /\ bm' = IF bm_threads[t].kind = "query_ok"
           THEN [bm EXCEPT !.metrics.successful_queries = @ + 1]
           ELSE [bm EXCEPT !.metrics.failed_queries = @ + 1]
  /\ bm_threads' = [bm_threads EXCEPT ![t].pc = "counted_outcome"]
  /\ UNCHANGED <<rvars, cvars, svars, besides_bm, bm_calls>>

\* recordQuery from cleanupOldStats() to its return: once CLEANUP_INTERVAL
\* has elapsed cleanupOldStats locks mutex_, which the thread owns.
EndRecordQuery(t, ub) ==
  /\ bm_threads[t].pc = "counted_outcome"
  /\ IF bm.stale /\ ub = "deadlock"
     THEN /\ bm_threads' = [bm_threads EXCEPT ![t].pc = "hangs"]
          /\ UNCHANGED <<bm, bm_calls>>
     ELSE /\ bm' = [bm EXCEPT !.mutex_ = 0,
                              !.stale = IF ub = "relock" THEN FALSE ELSE @]
          /\ bm_threads' = [bm_threads EXCEPT ![t].pc = "idle"]
          /\ bm_calls' = Returned(bm_threads[t].kind)
  /\ UNCHANGED <<rvars, cvars, svars, besides_bm>>

\* recordCacheHit, recordCacheMiss, recordRetry: lock, one increment, unlock.
RecordCounter(t, kind) ==
  /\ bm_threads[t].pc = "idle"
  /\ CallsStarted < MaxMetricsCalls
  /\ LockFree(bm)
  /\ bm' = IF kind = "cache_hit" THEN [bm EXCEPT !.metrics.cache_hits = @ + 1]
           ELSE IF kind = "cache_miss" THEN [bm EXCEPT !.metrics.cache_misses = @ + 1]
           ELSE [bm EXCEPT !.metrics.total_retries = @ + 1]
  /\ bm_calls' = [bm_calls EXCEPT !.started[kind] = @ + 1, !.returned[kind] = @ + 1]
  /\ UNCHANGED <<rvars, cvars, svars, besides_bm, bm_threads>>

\* getStats: lock, copy the counters, unlock.
GetStats(t) ==
  /\ bm_threads[t].pc = "idle"
  /\ LockFree(bm)
  /\ bm_threads' = [bm_threads EXCEPT ![t].stats = bm.metrics]
  /\ UNCHANGED <<rvars, cvars, svars, besides_bm, bm, bm_calls>>

\* steady_clock::now() - last_cleanup_ reaches CLEANUP_INTERVAL.
MetricsIntervalElapses ==
  /\ ~bm.stale
  /\ bm' = [bm EXCEPT !.stale = TRUE]
  /\ UNCHANGED <<rvars, cvars, svars, besides_bm, bm_threads, bm_calls>>

InitMetrics ==
  /\ ResolverAtRest
  /\ CacheAtRest
  /\ SelectAtRest
  /\ ConfigManagerAtRest
  /\ PublisherAtRest
  /\ StatsAtRest
  /\ MetricsAtRest
  /\ StrategyAtRest
  /\ LocksAtRest
  /\ DurationsAtRest
  /\ StartupAtRest

NextMetrics ==
  \/ \E t \in MetricsThreads, success \in BOOLEAN : BeginRecordQuery(t, success)
  \/ \E t \in MetricsThreads : CountOutcome(t)
  \/ \E t \in MetricsThreads, ub \in RelockOutcomes : EndRecordQuery(t, ub)
  \/ \E t \in MetricsThreads, kind \in {"cache_hit", "cache_miss", "retry"} :
       RecordCounter(t, kind)
  \/ \E t \in MetricsThreads : GetStats(t)
  \/ MetricsIntervalElapses

SpecMetrics == InitMetrics /\ [][NextMetrics]_vars

\* ------------------------------------------- CaresQueryStrategy on its own
\* What the c-ares calls of initialize() do: everything succeeds, or
\* ares_library_init fails, or ares_threadsafety() is false, or
\* ares_init_options fails.
InitEnvs == {"ok", "library_init_fails", "not_threadsafe", "init_options_fails"}

StrategyCall(op, env, ret, status, dispatched, ready) ==
  [op |-> op, env |-> env, ret |-> ret, status |-> status,
   dispatched |-> dispatched, ready |-> ready, flip |-> ~cs_last.flip]

\* selectServer() returns an address: "" only when config_.servers is
\* empty, config_.servers.front() when no server counts as healthy.
ServerSelected(s) == s.has_servers

\* initialize(). failed_channel is what ares_init_options leaves in channel_
\* when it fails.
CSInitialize(env, failed_channel) ==
  /\ failed_channel \in {cs.channel_, "null"}
  /\ env # "init_options_fails" => failed_channel = cs.channel_
  /\ IF cs.initialized_
     THEN /\ cs_last' = StrategyCall("initialize", env, "already", "none", FALSE,
                                      cs_last.ready)
          /\ UNCHANGED cs
     ELSE IF env = "ok"
     THEN /\ cs' = [cs EXCEPT !.initialized_ = TRUE, !.channel_ = "valid"]
          /\ cs_last' = StrategyCall("initialize", env, "done", "none", FALSE, TRUE)
     ELSE /\ cs' = [cs EXCEPT !.initialized_ = TRUE, !.channel_ = failed_channel]
          /\ cs_last' = StrategyCall("initialize", env, "failed", "none", FALSE, FALSE)
  /\ UNCHANGED <<rvars, cvars, svars, besides_cs>>

\* isInitialized().
CSIsInitialized ==
  /\ cs_last' = StrategyCall("isInitialized", "none",
                             IF cs.initialized_ THEN "true" ELSE "false", "none", FALSE,
                             cs_last.ready)
  /\ UNCHANGED <<rvars, cvars, svars, besides_cs, cs>>

\* query(): NotInitialized unless initialized_, ESERVFAIL without a server,
\* else the context is stored and ares_getaddrinfo is called on channel_.
\* sync: ares_getaddrinfo completes the lookup before it returns (a numeric
\* host name, an answer from the hosts file): handleResult runs inside
\* query() and sets completed.
CSQuery(sync) ==
  /\ cs.contexts < MaxStrategyQueries
  /\ sync => cs.initialized_ /\ ServerSelected(cs) /\ cs.channel_ = "valid"
  /\ IF ~cs.initialized_
     THEN /\ cs_last' = StrategyCall("query", "none", "returned", "ENOTINITIALIZED",
                                      FALSE, cs_last.ready)
          /\ UNCHANGED cs
     ELSE IF ~ServerSelected(cs)
     THEN /\ cs_last' = StrategyCall("query", "none", "returned", "ESERVFAIL", FALSE,
                                      cs_last.ready)
          /\ UNCHANGED cs
     ELSE /\ cs' = [cs EXCEPT !.contexts = @ + 1,
                              !.completed = IF sync THEN @ + 1 ELSE @]
          /\ cs_last' = StrategyCall("query", "none", "returned",
                                      IF sync THEN "SUCCESS" ELSE "none", TRUE,
                                      cs_last.ready)
  /\ UNCHANGED <<rvars, cvars, svars, besides_cs>>

\* shutdown(): nothing unless initialized_; else every stored context is
\* called back ECANCELLED and the channel is destroyed.
CSShutdown ==
  /\ IF ~cs.initialized_
     THEN /\ cs_last' = StrategyCall("shutdown", "none", "already", "none", FALSE,
                                      cs_last.ready)
          /\ UNCHANGED cs
     ELSE /\ cs' = [cs EXCEPT !.initialized_ = FALSE, !.channel_ = "destroyed",
                              !.contexts = 0, !.completed = 0]
          /\ cs_last' = StrategyCall("shutdown", "none", "done",
                                      IF cs.contexts > 0 THEN "ECANCELLED" ELSE "none",
                                      FALSE, FALSE)
  /\ UNCHANGED <<rvars, cvars, svars, besides_cs>>

\* processEvents(): returns at once unless initialized_, and when ares_fds
\* reports no socket (no lookup is pending on a channel); else ares_process
\* completes k of the pending lookups (handleResult sets completed) and
\* cleanupCompletedContexts drops every context with completed set.
CSProcessEvents(k) ==
  /\ k \in 0..(cs.contexts - cs.completed)
  /\ IF ~cs.initialized_
     THEN /\ k = 0
          /\ cs_last' = StrategyCall("processEvents", "none", "not_initialized", "none",
                                      FALSE, cs_last.ready)
          /\ UNCHANGED cs
     ELSE IF cs.contexts - cs.completed = 0 \/ cs.channel_ # "valid"
     THEN /\ k = 0
          /\ cs_last' = StrategyCall("processEvents", "none", "no_sockets", "none",
                                      FALSE, cs_last.ready)
          /\ UNCHANGED cs
     ELSE /\ cs' = [cs EXCEPT !.contexts = @ - (cs.completed + k), !.completed = 0]
          /\ cs_last' = StrategyCall("processEvents", "none", "swept", "none", FALSE,
                                      cs_last.ready)
  /\ UNCHANGED <<rvars, cvars, svars, besides_cs>>

InitStrategy ==
  /\ ResolverAtRest
  /\ CacheAtRest
  /\ SelectAtRest
  /\ ConfigManagerAtRest
  /\ PublisherAtRest
  /\ StatsAtRest
  /\ MetricsAtRest
  /\ LocksAtRest
  /\ DurationsAtRest
  /\ StartupAtRest
  /\ cs \in {NewStrategy(has_servers) : has_servers \in BOOLEAN}
  /\ cs_last = NoStrategyCall

NextStrategy ==
  \/ \E env \in InitEnvs, ch \in {"null", "valid", "destroyed"} : CSInitialize(env, ch)
  \/ CSIsInitialized
  \/ \E sync \in BOOLEAN : CSQuery(sync)
  \/ CSShutdown
  \/ \E k \in 0..MaxStrategyQueries : CSProcessEvents(k)

SpecStrategy == InitStrategy /\ [][NextStrategy]_vars

\* The thread that pumps the strategy calls processEvents() again and again.
SpecStrategyPumped ==
  SpecStrategy /\ WF_vars(\E k \in 0..MaxStrategyQueries : CSProcessEvents(k))

\* ------------------------------------------------------ the contexts mutexes
\* DNSResolver::contexts_mutex_ and CaresQueryStrategy::contexts_mutex_, as
\* resolve() and the strategy's shutdown() take them from the threads of
\* LockThreads. The steps of resolve() between the concurrency check and
\* the query (events, cache, metrics) take neither mutex and are left out.
\* The resolver's active_contexts_ is never added to: its size is 0.
Held(t) ==
  (IF lk.r_contexts_mutex = t THEN {"resolver.contexts_mutex_"} ELSE {})
    \cup (IF lk.s_contexts_mutex = t THEN {"strategy.contexts_mutex_"} ELSE {})

CallOut(call, t) == [call |-> call, thread |-> t, held |-> Held(t)]

\* resolve(): std::lock_guard<std::mutex> lock(contexts_mutex_).
ResolveLock(t) ==
  /\ lk_pc[t] = "idle"
  /\ lk.r_contexts_mutex = 0
  /\ lk' = [lk EXCEPT !.r_contexts_mutex = t]
  /\ lk_pc' = [lk_pc EXCEPT ![t] = "checking"]
  /\ UNCHANGED <<rvars, cvars, svars, besides_lk, lk_last>>

\* resolve(): configManager_->getConfig() inside the condition; the guard is
\* released at the end of the block when the limit is not reached.
ResolveGetConfig(t) ==
  /\ lk_pc[t] = "checking"
  /\ lk_last' = CallOut("ConfigManager::getConfig", t)
  /\ IF 0 >= lk.max_concurrent_queries
     THEN /\ lk_pc' = [lk_pc EXCEPT ![t] = "busy"]
          /\ UNCHANGED lk
     ELSE /\ lk_pc' = [lk_pc EXCEPT ![t] = "admitted"]
          /\ lk' = [lk EXCEPT !.r_contexts_mutex = 0]
  /\ UNCHANGED <<rvars, cvars, svars, besides_lk>>

\* resolve(): callback(result) with ARES_EOF, then return.
ResolveBusyCallback(t) ==
  /\ lk_pc[t] = "busy"
  /\ lk_last' = CallOut("ResolveCallback", t)
  /\ lk' = [lk EXCEPT !.r_contexts_mutex = 0]
  /\ lk_pc' = [lk_pc EXCEPT ![t] = "idle"]
  /\ UNCHANGED <<rvars, cvars, svars, besides_lk>>

\* query(): the context is pushed under the strategy's contexts_mutex_.
QueryPushContext(t) ==
  /\ lk_pc[t] = "admitted"
  /\ lk.s_contexts_mutex = 0
  /\ lk.s_contexts < MaxLockContexts
  /\ lk' = [lk EXCEPT !.s_contexts = @ + 1]
  /\ lk_pc' = [lk_pc EXCEPT ![t] = "idle"]
  /\ UNCHANGED <<rvars, cvars, svars, besides_lk, lk_last>>

\* The strategy's shutdown(): lock_guard on contexts_mutex_ before the loop.
ShutdownLock(t) ==
  /\ lk_pc[t] = "idle"
  /\ lk.s_contexts_mutex = 0
  /\ lk' = [lk EXCEPT !.s_contexts_mutex = t]
  /\ lk_pc' = [lk_pc EXCEPT ![t] = "cancelling"]
  /\ UNCHANGED <<rvars, cvars, svars, besides_lk, lk_last>>

\* The strategy's shutdown(): context->callback({.status = ARES_ECANCELLED})
\* for the next context of the loop.
ShutdownCallback(t) ==
  /\ lk_pc[t] = "cancelling"
  /\ lk.s_contexts > 0
  /\ lk_last' = CallOut("DNSQueryCallback", t)
  /\ lk' = [lk EXCEPT !.s_contexts = @ - 1]
  /\ UNCHANGED <<rvars, cvars, svars, besides_lk, lk_pc>>

\* The strategy's shutdown(): active_contexts_.clear() and the end of the block.
ShutdownUnlock(t) ==
  /\ lk_pc[t] = "cancelling"
  /\ lk.s_contexts = 0
  /\ lk' = [lk EXCEPT !.s_contexts_mutex = 0]
  /\ lk_pc' = [lk_pc EXCEPT ![t] = "idle"]
  /\ UNCHANGED <<rvars, cvars, svars, besides_lk, lk_last>>

InitLocks ==
  /\ ResolverAtRest
  /\ CacheAtRest
  /\ SelectAtRest
  /\ ConfigManagerAtRest
  /\ PublisherAtRest
  /\ StatsAtRest
  /\ MetricsAtRest
  /\ StrategyAtRest
  /\ DurationsAtRest
  /\ StartupAtRest
  /\ lk \in {[r_contexts_mutex |-> 0, s_contexts_mutex |-> 0, s_contexts |-> 0,
              max_concurrent_queries |-> n] : n \in {0, 1}}
  /\ lk_pc = [t \in LockThreads |-> "idle"]
  /\ lk_last = NoCallOut

NextLocks ==
  \E t \in LockThreads :
    \/ ResolveLock(t)
    \/ ResolveGetConfig(t)
    \/ ResolveBusyCallback(t)
    \/ QueryPushContext(t)
    \/ ShutdownLock(t)
    \/ ShutdownCallback(t)
    \/ ShutdownUnlock(t)

SpecLocks == InitLocks /\ [][NextLocks]_vars

\* --------------------------------------------------------- percentile export
\* query_durations_ as recordQuery fills it and getPrometheusMetrics reads
\* it. Durations are whole milliseconds.
Durations == {1, 2, 3}

\* The double literals 0.5, 0.9 and 0.99: 0x1p-1, 0x1.ccccccccccccdp-1,
\* 0x1.fae147ae147aep-1.
Q50 == Double(FALSE, {-1})

Q90 ==
  Double(FALSE, {-53, -51, -50, -47, -46, -43, -42, -39, -38, -35, -34, -31, -30, -27,
                 -26, -23, -22, -19, -18, -15, -14, -11, -10, -7, -6, -3, -2, -1})

Q99 ==
  Double(FALSE, {-52, -51, -50, -48, -46, -45, -44, -43, -39, -37, -32, -31, -30, -28,
                 -26, -25, -24, -23, -19, -17, -12, -11, -10, -8, -6, -5, -4, -3, -2, -1})

\* sorted_durations[sorted_durations.size() * k]: the size converted to
\* double, the product rounded, and the conversion of a double to the index
\* type, which drops the fraction. Zero-based.
QuantileIndex(n, k) ==
  BitsNat({b \in FMul(Double(FALSE, NatBits(n)), k).bits : b >= 0})

\* recordQuery: push_back, and pop_front beyond MAX_SAMPLES.
PushDuration(durations, d) ==
  IF Len(durations) + 1 > MAX_SAMPLES THEN Tail(Append(durations, d))
  ELSE Append(durations, d)

RecordDuration(d) ==
  /\ Len(qd) < MaxDurations
  /\ qd' = PushDuration(qd, d)
  /\ UNCHANGED <<rvars, cvars, svars, besides_qd, qd_last>>

\* getPrometheusMetrics: the quantile lines, written when query_durations_
\* is not empty. An index outside the vector is recorded as quantile "out".
ExportQuantiles ==
  /\ qd # <<>>
  /\ LET sorted == SortSeq(qd, LAMBDA a, b : a < b)
         index == [i \in 1..3 |-> QuantileIndex(Len(qd), <<Q50, Q90, Q99>>[i])]
     IN  qd_last' = [made |-> TRUE, durations |-> qd, index |-> index,
                     quantile |-> [i \in 1..3 |->
                                     IF index[i] < Len(sorted) THEN <<sorted[index[i] + 1]>>
                                     ELSE <<>>]]
  /\ UNCHANGED <<rvars, cvars, svars, besides_qd, qd>>

InitDurations ==
  /\ ResolverAtRest
  /\ CacheAtRest
  /\ SelectAtRest
  /\ ConfigManagerAtRest
  /\ PublisherAtRest
  /\ StatsAtRest
  /\ MetricsAtRest
  /\ StrategyAtRest
  /\ LocksAtRest
  /\ DurationsAtRest
  /\ StartupAtRest

NextDurations ==
  \/ \E d \in Durations : RecordDuration(d)
  \/ ExportQuantiles

SpecDurations == InitDurations /\ [][NextDurations]_vars

\* ------------------------------------------- claims on the life cycle
\* A shutdown() call that finds initialized_ false.
SecondShutdown == sd_calls' = sd_calls + 1 /\ ~initialized

\* C21: shutdown() is idempotent: a call on a resolver that is already shut
\* down changes no state (no strategy shutdown, no callback), and after the
\* first shutdown() every resolve() calls back NotInitialized and does
\* nothing else.
C21_ShutdownIdempotent ==
  [][/\ SecondShutdown =>
          UNCHANGED <<now, config, initialized, init_ret, active_contexts, cache, metrics,
                      m_stale, m_mutex, stuck, log, s_initialized, s_active_contexts,
                      channel, pump, sdphase, nresolves, calls, delivered, dispatches,
                      handled, cancelled, change_handler, nupdates, hcc>>
     /\ (sd_calls >= 1 /\ nresolves' = nresolves + 1) =>
          OnlyCallsBack(nresolves', "ENOTINITIALIZED")]_vars

\* The number of times the callback given to the query() call of attempt
\* retry_count of resolve() call q has been invoked.
Invocations(q, retry_count) ==
  Cardinality({i \in DOMAIN handled[q] : handled[q][i][1] = retry_count})

\* C22: the callback given to a CaresQueryStrategy::query call is invoked
\* exactly once: never twice, shutdown() included, and once as soon as the
\* lookup is no longer pending on the channel.
C22_StrategyCallbackOnce ==
  \A q \in Made :
    \A retry_count \in 0..(dispatches[q] - 1) :
      /\ Invocations(q, retry_count) <= 1
      /\ (<<q, retry_count>> \notin channel /\ pump = <<>> /\ q \notin stuck
            /\ sdphase \in {"none", "done"})
           => Invocations(q, retry_count) = 1

\* C23: the retry decision and the backoff delay of a resolve() call follow
\* the retry settings of the snapshot current when the call was made: a
\* waiting retry has the delay computed from them and is within their
\* max_attempts, and a retryable failure is delivered only once their
\* max_attempts retries have been made.
C23_ConfigSnapshot ==
  \A q \in Made :
    /\ Backoff(q) =>
         /\ pump[1].delay = BackoffDelay(calls[q].retry, pump[1].retry_count)
         /\ pump[1].retry_count <= calls[q].retry.max_attempts
    /\ (handled[q] # <<>> /\ delivered[q] # <<>> /\ Retryable(Last(delivered[q]).status))
         => Last(handled[q])[1] >= calls[q].retry.max_attempts

\* C24: updateConfig swaps the snapshot and invokes the change handler
\* outside the config mutex, so the call returns with the snapshot stored
\* and a registered handler, one that calls getConfig() included, has run
\* to completion.
C24_HandlerOutsideMutex ==
  (cm_last.op = "updateConfig" /\ cm_last.handler # "none") =>
    /\ cm_last.handler = "completed"
    /\ cm_last.ret = "returned"
    /\ cm.config_ = cm_last.config
    /\ cm.mutex_ = "free"

\* C25: an invalid configuration is rejected: initialize() on an invalid
\* snapshot returns false and leaves the resolver uninitialised, and an
\* update never makes getConfig() return an invalid snapshot in place of
\* the previous one.
C25_InvalidConfigRejected ==
  [][/\ (~initialized /\ init_ret' # init_ret /\ ~validateConfig(config)) =>
          (init_ret' = "false" /\ ~initialized')
     /\ init_ret' = "false" => ~initialized'
     /\ nupdates' = nupdates + 1 => (validateConfig(config') \/ config' = config)]_vars

\* C30: once shutdown() has returned, the change handler initialize()
\* registered is deregistered, and a later ConfigManager::updateConfig does
\* not invoke handleConfigChange on the shut-down resolver.
C30_HandlerDeregistered ==
  /\ sdphase = "done" => change_handler = "none"
  /\ \A i \in DOMAIN hcc : hcc[i].sdphase # "done"

\* C26: whatever a subscriber throws, publish* invokes every subscriber of
\* the event exactly once and no exception leaves the call.
C26_SubscriberIsolation ==
  ep_last.made =>
    /\ \A i \in DOMAIN ep_last.invoked : ep_last.invoked[i] = 1
    /\ ~ep_last.propagated

\* The exact sum of a sequence of doubles.
RECURSIVE ExactSum(_)
ExactSum(xs) == IF xs = <<>> THEN DZero ELSE DAdd(Head(xs), ExactSum(Tail(xs)))

\* |n * m - sum| * 10^9 <= |sum|: m is within 1e-9 relative error of sum / n.
WithinRelativeError(m, sum, n) ==
  LET err == DSub(Double(m.neg, BitsMul(m.bits, NatBits(n))), sum)
  IN  ~BitsLess(sum.bits, BitsMul(err.bits, NatBits(1000000000)))

\* C27: after update(x1), ..., update(xn) from the reset state, count() is n
\* and mean() is within 1e-9 relative error of (x1 + ... + xn) / n.
C27_RunningMean ==
  /\ RSCount(rs) = Len(rs_in)
  /\ rs_in # <<>> => WithinRelativeError(RSMean(rs), ExactSum(rs_in), Len(rs_in))

\* The value of a counter accounts for the calls of the kinds given: every
\* call that has returned is counted, no call is counted twice.
Accounts(counter, kinds) ==
  /\ Sum([i \in 1..Len(kinds) |-> bm_calls.returned[kinds[i]]]) <= counter
  /\ counter <= Sum([i \in 1..Len(kinds) |-> bm_calls.started[kinds[i]]])

\* C28: under concurrent callers every counter equals the number of the
\* corresponding calls (exactly, once every call has returned), and every
\* Stats that getStats() returns has total_queries = successful_queries +
\* failed_queries.
C28_CountersLinearizable ==
  /\ Accounts(bm.metrics.total_queries, <<"query_ok", "query_failed">>)
  /\ Accounts(bm.metrics.successful_queries, <<"query_ok">>)
  /\ Accounts(bm.metrics.failed_queries, <<"query_failed">>)
  /\ Accounts(bm.metrics.cache_hits, <<"cache_hit">>)
  /\ Accounts(bm.metrics.cache_misses, <<"cache_miss">>)
  /\ Accounts(bm.metrics.total_retries, <<"retry">>)
  /\ \A t \in MetricsThreads :
       bm_threads[t].stats # <<>> =>
         bm_threads[t].stats.total_queries =
           bm_threads[t].stats.successful_queries + bm_threads[t].stats.failed_queries

C28_Witness ==
  /\ bm_threads[1].stats # <<>>
  /\ bm_threads[1].stats.total_queries = 2
  /\ bm_threads[1].stats.successful_queries = 1
  /\ bm_threads[1].stats.cache_hits = 1
  /\ bm_calls.returned["query_failed"] = 1
  /\ bm_threads[2].pc = "idle"

\* C29: isInitialized() returns true only when initialisation fully
\* succeeded (library, thread safety, channel) and no shutdown followed;
\* otherwise it returns false, and query() calls back NotInitialized
\* without dispatching on the channel.
C29_StrategyReadiness ==
  /\ cs_last.op = "isInitialized" => (cs_last.ret = "true" <=> cs_last.ready)
  /\ (cs_last.op = "query" /\ ~cs_last.ready) =>
       (cs_last.status = "ENOTINITIALIZED" /\ ~cs_last.dispatched)

\* ------------------------------------------------ claims on the invariants
\* The positions of lru_list_ that hold key k: the list nodes an entry's
\* lru_iterator can designate.
Positions(c, k) == {i \in 1..Len(c.lru_list_) : c.lru_list_[i] = k}

Configured(address) ==
  {i \in DOMAIN sv_config.servers : sv_config.servers[i].address = address}

\* C32: selectServer, the recovery path included, never returns a server
\* whose configuration has enabled = false.
C32_OnlyEnabledSelected ==
  (sv_last.made /\ sv_last.ret # <<>>) =>
    \A i \in Configured(sv_last.ret) : sv_config.servers[i].enabled

\* A step that completes a pending attempt, and whether it failed: a
\* success pushes a latency sample.
Completes == Len(sv_pending') < Len(sv_pending)

Fails == Completes /\ latency_history' = latency_history

\* The addresses with a health record before or after the step.
Tracked == DOMAIN server_health \cup DOMAIN server_health'

\* C33: a failed attempt increases one server's error_count by 1 and that
\* server is unhealthy afterwards exactly when the count exceeds
\* server_error_threshold; a successful attempt leaves one server with
\* error_count 0 and healthy; in every state a server is healthy iff its
\* error_count <= server_error_threshold.
C33_HealthTransitions ==
  [][/\ Fails =>
          \E a \in Tracked :
            /\ HealthAt(server_health', a).error_count
                 = HealthAt(server_health, a).error_count + 1
            /\ HealthAt(server_health', a).healthy
                 <=> (HealthAt(server_health', a).error_count
                        <= sv_config.server_error_threshold)
     /\ (Completes /\ ~Fails) =>
          \E a \in Tracked :
            /\ HealthAt(server_health', a).error_count = 0
            /\ HealthAt(server_health', a).healthy
            /\ HistoryAt(latency_history', a) # HistoryAt(latency_history, a)
     /\ \A a \in DOMAIN server_health' :
          server_health'[a].healthy
            <=> (server_health'[a].error_count <= sv_config.server_error_threshold)]_vars

\* The servers the completing attempt can have been dispatched to.
CompletedServers ==
  {sv_pending[i] : i \in {j \in DOMAIN sv_pending : sv_pending' = Without(sv_pending, j)}}

\* C38: the result of an attempt is recorded against the server selectServer
\* returned when the attempt was dispatched: only that server's health
\* record and latency history change, so no recovery reset happens.
C38_HealthAttribution ==
  [][Completes =>
       \E d \in CompletedServers :
         /\ \A a \in Tracked \ {d} :
              /\ a \in DOMAIN server_health /\ a \in DOMAIN server_health'
              /\ server_health'[a] = server_health[a]
         /\ \A a \in (DOMAIN latency_history \cup DOMAIN latency_history') \ {d} :
              HistoryAt(latency_history', a) = HistoryAt(latency_history, a)
         /\ HealthAt(server_health', d) # HealthAt(server_health, d)
              \/ HistoryAt(latency_history', d) # HistoryAt(latency_history, d)]_vars

\* C34: no component holds its own mutex while it invokes a user callback or
\* calls into another component: ConfigManager::getConfig(), the Busy
\* callback and the callbacks of the strategy's shutdown() are made with no
\* contexts mutex held by the calling thread.
C34_NoLockAcrossCalls == lk_last.call # "none" => lk_last.held = {}

\* ------------------------------------------------- claims on the metrics
\* The thread t leaves the last part of recordQuery in this step.
EndsRecordQuery(t) ==
  bm_threads[t].pc = "counted_outcome" /\ bm_threads'[t].pc # "counted_outcome"

\* C35: a recordQuery call made when CLEANUP_INTERVAL has elapsed since the
\* last cleanup performs the cleanup and returns with mutex_ released, so
\* that later record* and getStats calls proceed.
C35_CleanupReturns ==
  [][\A t \in MetricsThreads :
       (EndsRecordQuery(t) /\ bm.stale) =>
         /\ bm_threads'[t].pc = "idle"
         /\ bm'.mutex_ = 0
         /\ ~bm'.stale]_vars

\* The retained durations in ascending order.
RECURSIVE Ascending(_)
Ascending(q) ==
  IF q = <<>> THEN <<>>
  ELSE LET least == CHOOSE i \in DOMAIN q : \A j \in DOMAIN q : q[i] <= q[j]
       IN  <<q[least]>> \o Ascending(Without(q, least))

\* C36: for the n >= 1 retained durations the exported P50, P90 and P99 are
\* sorted[floor(k * (n - 1))] for k = 0.5, 0.9, 0.99 (zero-based, sorted
\* ascending), and the index used is within 0..n-1.
C36_Percentiles ==
  qd_last.made =>
    LET n == Len(qd_last.durations)
        sorted == Ascending(qd_last.durations)
    IN  /\ \A i \in 1..3 : qd_last.index[i] \in 0..(n - 1)
        /\ qd_last.quantile[1] = <<sorted[((5 * (n - 1)) \div 10) + 1]>>
        /\ qd_last.quantile[2] = <<sorted[((9 * (n - 1)) \div 10) + 1]>>
        /\ qd_last.quantile[3] = <<sorted[((99 * (n - 1)) \div 100) + 1]>>

\* ------------------------------------------- claims on the strategy's pump
\* C37: every context that has completed is eventually removed from
\* active_contexts_ by the processEvents() calls that follow, also when no
\* other lookup is pending.
C37_CompletedSwept == (cs.completed > 0) ~> (cs.completed = 0)

\* ------------------------------------------- claims on re-entrant handlers
\* C39: a publish* call returns also when a subscriber, from inside its
\* handler, calls resolve() on the resolver that publishes to the same
\* EventPublisher: publish does not deadlock on the publisher's mutex.
C39_PublishReturns == ep_last.made => ep_last.returned

\* ------------------------------------------ initialize() beside resolve()
\* DNSResolver::initialize runs on one thread, resolve on another. initialize
\* is split at its writes of initialized_, activeQueryStrategy_ and
\* activeCache_; resolve at its reads of them. The shared pointers are plain
\* members: a read of one while initialize assigns it is a data race, whose
\* outcomes are the value before the assignment or a "torn" pointer (the value
\* after it is the read made once the assignment step has been taken).
Racy(pointer, assigning) == IF assigning THEN {pointer, "torn"} ELSE {pointer}

\* initialize(), entry: the compare_exchange on initialized_. A call that
\* finds it set returns true at once.
InitializeEnter(valid, has_strategy, has_cache) ==
  /\ dr_init.pc = "idle"
  /\ IF dr.initialized_
     THEN /\ dr.again < MaxInitializeCalls
          /\ dr' = [dr EXCEPT !.again = @ + 1]
          /\ UNCHANGED dr_init
     ELSE /\ Len(dr.outcome) < MaxInitializeCalls
          /\ dr' = [dr EXCEPT !.initialized_ = TRUE, !.outcome = Append(@, "running")]
          /\ dr_init' = [pc |-> "entered", valid |-> valid, strategy |-> has_strategy,
                         cache |-> has_cache]
  /\ UNCHANGED <<rvars, cvars, svars, besides_dr, dr_res>>

\* initialize() returns false: initialized_ = false; return false.
ReturnFalse(d) ==
  [d EXCEPT !.initialized_ = FALSE, !.outcome[Len(d.outcome)] = "false"]

\* initialize(): getConfig() and validateConfig(config); then the plugin
\* manager and the two factories.
InitializeValidate ==
  /\ dr_init.pc = "entered"
  /\ IF dr_init.valid
     THEN /\ dr_init' = [dr_init EXCEPT !.pc = "validated"]
          /\ UNCHANGED dr
     ELSE /\ dr' = ReturnFalse(dr)
          /\ dr_init' = [dr_init EXCEPT !.pc = "idle"]
  /\ UNCHANGED <<rvars, cvars, svars, besides_dr, dr_res>>

\* initialize(): activeQueryStrategy_ = createQueryStrategy(...), which is
\* null when the factory throws.
InitializeStrategy ==
  /\ dr_init.pc = "validated"
  /\ IF dr_init.strategy
     THEN /\ dr' = [dr EXCEPT !.activeQueryStrategy_ = "set"]
          /\ dr_init' = [dr_init EXCEPT !.pc = "strategy"]
     ELSE /\ dr' = ReturnFalse([dr EXCEPT !.activeQueryStrategy_ = "unset"])
          /\ dr_init' = [dr_init EXCEPT !.pc = "idle"]
  /\ UNCHANGED <<rvars, cvars, svars, besides_dr, dr_res>>

\* initialize(): activeCache_ = createCache(...), null when the factory throws.
InitializeCache ==
  /\ dr_init.pc = "strategy"
  /\ IF dr_init.cache
     THEN /\ dr' = [dr EXCEPT !.activeCache_ = "set"]
          /\ dr_init' = [dr_init EXCEPT !.pc = "cache"]
     ELSE /\ dr' = ReturnFalse([dr EXCEPT !.activeCache_ = "unset"])
          /\ dr_init' = [dr_init EXCEPT !.pc = "idle"]
  /\ UNCHANGED <<rvars, cvars, svars, besides_dr, dr_res>>

\* initialize(): registers the change handler and returns true.
InitializeReturn ==
  /\ dr_init.pc = "cache"
  /\ dr' = [dr EXCEPT !.outcome[Len(dr.outcome)] = "true"]
  /\ dr_init' = [dr_init EXCEPT !.pc = "idle"]
  /\ UNCHANGED <<rvars, cvars, svars, besides_dr, dr_res>>

\* resolve(), entry: if (!initialized_) the callback gets ARES_ENOTINITIALIZED.
\* during: the initialize() call whose compare_exchange set the flag read.
ResolveCheck ==
  /\ dr_res.pc = "idle"
  /\ dr_res.n < MaxStartupResolves
  /\ dr_res' = IF dr.initialized_
               THEN [NoResolve EXCEPT !.pc = "checked", !.n = dr_res.n + 1,
                                      !.passed = TRUE, !.during = Len(dr.outcome)]
               ELSE [NoResolve EXCEPT !.n = dr_res.n + 1, !.status = "ENOTINITIALIZED"]
  /\ UNCHANGED <<rvars, cvars, svars, besides_dr, dr, dr_init>>

\* resolve(): if (activeCache_) activeCache_->get(...).
ResolveReadCache(seen) ==
  /\ dr_res.pc = "checked"
  /\ seen \in Racy(dr.activeCache_, dr_init.pc = "strategy")
  /\ dr_res' = [dr_res EXCEPT !.pc = "cache_read", !.activeCache_ = seen]
  /\ UNCHANGED <<rvars, cvars, svars, besides_dr, dr, dr_init>>

\* resolve(): if (activeQueryStrategy_) query(...) else the callback gets
\* ARES_ENODATA.
ResolveReadStrategy(seen) ==
  /\ dr_res.pc = "cache_read"
  /\ seen \in Racy(dr.activeQueryStrategy_, dr_init.pc = "validated")
  /\ dr_res' = [dr_res EXCEPT !.pc = "idle", !.activeQueryStrategy_ = seen,
                              !.status = IF seen = "set" THEN "dispatched"
                                         ELSE IF seen = "unset" THEN "ENODATA"
                                         ELSE "fault"]
  /\ UNCHANGED <<rvars, cvars, svars, besides_dr, dr, dr_init>>

InitStartup ==
  /\ ResolverAtRest
  /\ CacheAtRest
  /\ SelectAtRest
  /\ ConfigManagerAtRest
  /\ PublisherAtRest
  /\ StatsAtRest
  /\ MetricsAtRest
  /\ StrategyAtRest
  /\ LocksAtRest
  /\ DurationsAtRest
  /\ StartupAtRest

NextStartup ==
  \/ \E valid, has_strategy, has_cache \in BOOLEAN :
       InitializeEnter(valid, has_strategy, has_cache)
  \/ InitializeValidate
  \/ InitializeStrategy
  \/ InitializeCache
  \/ InitializeReturn
  \/ ResolveCheck
  \/ \E seen \in {"unset", "set", "torn"} : ResolveReadCache(seen)
  \/ \E seen \in {"unset", "set", "torn"} : ResolveReadStrategy(seen)

SpecStartup == InitStartup /\ [][NextStartup]_vars

\* C40: a resolve() that runs beside initialize() and is not answered with
\* NotInitialized passed the initialised check on the flag of an
\* initialize() call that does not return false, and finds the cache and the
\* query strategy set.
C40_ResolveSeesInitialised ==
  dr_res.passed =>
    /\ dr.outcome[dr_res.during] # "false"
    /\ dr_res.activeCache_ \in {"unread", "set"}
    /\ dr_res.activeQueryStrategy_ \in {"unread", "set"}

====
